---- MODULE Spec2Model ----
(***************************************************************************)
(* A model of the AirSync server: Server (server.py), WebSocketServer      *)
(* (websocket_server.py), WebSocketHandler (websocket_handler.py),         *)
(* AESSipher (crypto.py) and DeviceState (state.py).                        *)
(*                                                                         *)
(* One run of the server is modelled, from construction to the end of      *)
(* stop().  Every coroutine is cut at its awaits: an action is the code    *)
(* that runs between two suspension points.  The peer and the network are  *)
(* the environment: they choose the inbound frames and when a socket       *)
(* closes.  The user callbacks are the environment too: what               *)
(* mac_info_request returns is chosen at each call.                        *)
(***************************************************************************)
EXTENDS Integers, Sequences, FiniteSets, TLC

\* ------------------------------------------------------------------ bounds

\* Inbound frames one connection reads in the connection-lifecycle runs.
MaxFrames == 1

\* Inbound frames one connection reads in the message-protocol runs.
MaxProtoFrames == 3

\* Inbound frames one connection reads in the file-transfer runs.
MaxXferFrames == 4

\* Inbound frames one connection reads in the app-icon runs.
MaxIconFrames == 3

\* Inbound frames the connection reads in the cache runs.
MaxCacheFrames == 4

\* Inbound frames the connection reads in the runs with send_file in a
\* callback.
MaxCallbackFrames == 4

\* Inbound frames the connection reads in the runs that are checked for
\* termination.
MaxLiveFrames == 3

\* Inbound frames the connection reads in the two-way transfer runs.
MaxDuplexFrames == 3

\* Server.send_message and Server.broadcast_message calls of a run.
MaxApiCalls == 2

\* Inbound frames the connection reads in the incoming-transfer runs.
MaxInFrames == 4

\* ------------------------------------------------------------ value sets

Conns == {"c1", "c2"}

NotifIds == {"n1", "n2"}

Packages == {"pkg1", "pkg2"}

\* The calls of start_outgoing_file_transfer; each call's uuid4 is its name.
Tasks == {"x1", "x2"}

\* The transfer ids a peer may name: those of the calls, and one of its own.
TransferIds == Tasks \cup {"p1"}

\* The names passed to Server._fire_event by the handlers.
Events ==
    {"mac_info_request", "device_connected", "device_disconnected", "status",
     "notification", "notificationUpdate", "macMediaControl", "app_icons",
     "clipboardUpdate", "fileTransferInit", "fileTransferComplete"}

\* A payload ("data" of a message).  src tags the connection it came from;
\* id "none" is a missing id; pkgs are the packages of an appIcons payload.
MkData(c, i, x, d, p) ==
    [src |-> c, id |-> i, index |-> x, dismissed |-> d, pkgs |-> p]

\* The empty dict {}.
Nothing == MkData("none", "none", 0, FALSE, {})

Payload(c) == MkData(c, "none", 0, FALSE, {})

\* An inbound frame.  wire: "enc" is AES-GCM under the server's key, "tampered"
\* is an encrypted frame whose authentication fails, "plain" is raw text.
\* kind: the text is empty, is not JSON, is JSON but no object, or is a
\* message object with a type and a data.
MkFrame(w, k, t, d) == [wire |-> w, kind |-> k, type |-> t, data |-> d]

\* A "checksum" of a message: the key is absent, or its value is None, "",
\* the string "null", or the hex digest of some bytes.  SHA-256 is taken to
\* be injective: a digest is named by the bytes it is the digest of.
MkSum(k, bytes) == [kind |-> k, digest |-> bytes]

NoSum == MkSum("absent", <<>>)

sha256_hexdigest(bytes) == MkSum("hex", bytes)

\* The payload of a fileTransferInit, fileChunk or fileTransferComplete
\* message; chunk is what base64 decoding of "chunk" gives, "bad" when it
\* raises.
MkFile(c, i, sum, ch) == [src |-> c, id |-> i, checksum |-> sum, chunk |-> ch]

\* An outbound frame as written to the socket.
MkOut(t, i, x, p) ==
    [type |-> t, wire |-> "plain", id |-> i, index |-> x, pkgs |-> p]

\* The transferVerified reply of handle_fileTransferComplete.
MkVerified(i, v) ==
    [type |-> "transferVerified", wire |-> "plain", id |-> i, index |-> 0,
     pkgs |-> {}, verified |-> v]

\* -------------------------------------------------------------- variables

VARIABLES
    event_handlers,     \* Server.event_handlers: the registered event names
    srv_no_encrypt,     \* Server.no_encrypt
    ws_no_encrypt,      \* WebSocketServer.no_encrypt
    ws_server,          \* WebSocketServer.server: "none", "serving", "closing"
    handlers,           \* WebSocketServer.handlers
    stop_pc,            \* position of WebSocketServer.stop
    pc,                 \* position of each connection task
    recvd,              \* frames each connection has read
    ws_closed,          \* websocket.closed of each connection
    close_code,         \* the code the socket was closed with (0: open)
    is_authenticated,   \* WebSocketHandler.is_authenticated
    h_no_encrypt,       \* WebSocketHandler.no_encrypt
    mac_info_data,      \* handle_device's local: what _fire_event returned
    mac_info_call,      \* what the last call of mac_info_request did
    last_dispatch,      \* the last call of a handler method by a listen()
    state,              \* DeviceState._state
    fired,              \* calls of Server._fire_event, per handler id and event
    sent,               \* frames written to each socket, in order
    file_transfers,     \* WebSocketHandler.file_transfers
    xfer,               \* the start_outgoing_file_transfer calls
    ack_log,            \* the fileChunkAck messages handle_fileChunkAck was given
    temp_files,         \* the NamedTemporaryFiles of handle_fileTransferInit
    raising,            \* the events whose registered callback raises
    snapshot,           \* what the user got from Server.get_state
    api,                \* the Server.send_message and broadcast_message calls
    cleanup_iter        \* the dict iterator of the loop in listen's finally

srvVars == <<event_handlers, srv_no_encrypt, ws_no_encrypt, ws_server, stop_pc>>

\* What a message handler can change.
hVars ==
    <<pc, ws_closed, close_code, is_authenticated, mac_info_data, mac_info_call, state,
      fired, sent, file_transfers, temp_files, xfer, ack_log>>

vars ==
    <<event_handlers, raising, snapshot, api, srv_no_encrypt, ws_no_encrypt, ws_server, handlers,
      stop_pc, pc, recvd, ws_closed, close_code, is_authenticated,
      h_no_encrypt, cleanup_iter, mac_info_data, mac_info_call, last_dispatch, state, fired, sent,
      file_transfers, temp_files, xfer, ack_log>>

\* ------------------------------------------------------------ crypto.py

\* The text a frame carries on the wire: base64 of nonce, ciphertext and tag
\* for an encrypted frame, the text itself for a plain one.
raw_text(frame) ==
    [b64 |-> frame.wire # "plain", kind |-> frame.kind, type |-> frame.type,
     data |-> frame.data]

\* AESSipher.decrypt_message: the plaintext when AES-GCM authenticates the
\* frame; on any failure (InvalidTag, not base64, ...) the input, unchanged.
decrypt_message(frame) ==
    IF frame.wire = "enc"
    THEN [b64 |-> FALSE, kind |-> frame.kind, type |-> frame.type,
          data |-> frame.data]
    ELSE raw_text(frame)

\* AESSipher.encrypt_message: base64(nonce + ciphertext + tag).
encrypt_message(out) == [out EXCEPT !.wire = "enc"]

\* A json.loads that hands every text on as a message.
json_loads_unchecked(text) ==
    [result |-> "msg", type |-> text.type, data |-> text.data]

\* json.loads on a received text, then msg.get("type"), msg.get("data").
\* Base64 of an encrypted frame is no JSON object.
json_loads(text) ==
    IF text.b64 \/ text.kind = "notjson"
    THEN [result |-> "JSONDecodeError", type |-> "none", data |-> Nothing]
    ELSE IF text.kind = "nonobject"
    THEN [result |-> "AttributeError", type |-> "none", data |-> Nothing]
    ELSE [result |-> "msg", type |-> text.type, data |-> text.data]

\* ------------------------------------------------------------- state.py

state0 ==
    [device_info |-> Nothing, status |-> Nothing,
     notifications |-> [n \in NotifIds |-> Nothing],
     app_icons |-> [p \in Packages |-> Nothing],
     clipboard |-> Nothing]

set_device_info(st, data) == [st EXCEPT !.device_info = data]

\* An update_state that removes the notification of every
\* notificationUpdate, dismissed or not.
update_state_any_update(st, key, data) ==
    IF key = "notification"
    THEN IF data.id \in NotifIds
         THEN [st EXCEPT !.notifications[data.id] = data]
         ELSE st
    ELSE IF key = "notificationUpdate"
    THEN IF data.id \in NotifIds
         THEN [st EXCEPT !.notifications[data.id] = Nothing]
         ELSE st
    ELSE IF key = "clipboardUpdate"
    THEN [st EXCEPT !.clipboard = data]
    ELSE IF key \in DOMAIN st
    THEN [st EXCEPT ![key] = data]
    ELSE st

\* DeviceState.update_state.  An absent key of notifications or app_icons
\* maps to Nothing.  For key "appIcons" data is a map from packages.
update_state(st, key, data) ==
    IF key = "notification"
    THEN IF data.id \in NotifIds
         THEN [st EXCEPT !.notifications[data.id] = data]
         ELSE st
    ELSE IF key = "notificationUpdate"
    THEN IF data.dismissed /\ data.id \in NotifIds
            /\ st.notifications[data.id] # Nothing
         THEN [st EXCEPT !.notifications[data.id] = Nothing]
         ELSE st
    ELSE IF key = "appIcons"
    THEN [st EXCEPT !.app_icons =
              [p \in Packages |-> IF data[p] # Nothing THEN data[p] ELSE @[p]]]
    ELSE IF key = "clipboardUpdate"
    THEN [st EXCEPT !.clipboard = data]
    ELSE IF key \in DOMAIN st
    THEN [st EXCEPT ![key] = data]
    ELSE st

\* DeviceState.get_state(key).
get_state(st, key) == IF key \in DOMAIN st THEN st[key] ELSE Nothing

\* ------------------------------------------------------------ server.py

\* What the mac_info_request callback does when it is called.
CallbackOutcomes == {"record", "empty", "None", "raises"}

\* Server._fire_event's return value: None when no callback is registered or
\* the callback raised, else what the callback returned.
fire_result(registered, outcome) ==
    IF ~registered THEN "None"
    ELSE IF outcome = "raises" THEN "None"
    ELSE outcome

\* The callback _fire_event calls for `event` raises.
callback_raised(event) == event \in event_handlers /\ event \in raising

\* A _fire_event without its try: what the callback raises, it raises.
fire_propagates_raised(raised) == raised

\* _fire_event raises into its caller: never, "except Exception" logs.
fire_propagates(raised) == FALSE

\* Server._fire_event(event, ..) called by or for handler c.
fire_event(c, event) == [fired EXCEPT ![c][event] = @ + 1]

\* Server.on_event: register a callback.
on_event(event) ==
    /\ event \notin event_handlers
    /\ event_handlers' = event_handlers \cup {event}
    /\ UNCHANGED <<raising, snapshot, api, srv_no_encrypt, ws_no_encrypt, ws_server, handlers, stop_pc,
                   pc, recvd, ws_closed, close_code, is_authenticated,
                   h_no_encrypt, cleanup_iter, mac_info_data, mac_info_call, last_dispatch, state, fired,
                   sent, file_transfers, temp_files, xfer, ack_log>>

\* Server.on_event with a callback that raises whenever it is called.
on_event_raising(event) ==
    /\ event \notin event_handlers
    /\ event_handlers' = event_handlers \cup {event}
    /\ raising' = raising \cup {event}
    /\ UNCHANGED <<snapshot, api, srv_no_encrypt, ws_no_encrypt, ws_server,
                   handlers, stop_pc, pc, recvd, ws_closed, close_code,
                   is_authenticated, h_no_encrypt, cleanup_iter, mac_info_data,
                   mac_info_call, last_dispatch, state, fired, sent,
                   file_transfers, temp_files, xfer, ack_log>>

\* Server.start up to the wait for shutdown: it sets the flags of both
\* objects, then WebSocketServer.start opens the listener unless one is open.
start(no_encrypt) ==
    /\ stop_pc = "idle"
    /\ srv_no_encrypt' = no_encrypt
    /\ ws_no_encrypt' = no_encrypt
    /\ ws_server' = IF ws_server # "none" THEN ws_server ELSE "serving"
    /\ UNCHANGED <<event_handlers, raising, snapshot, api, handlers, stop_pc, pc, recvd, ws_closed,
                   close_code, is_authenticated, h_no_encrypt, cleanup_iter, mac_info_data, mac_info_call,
                   last_dispatch, state, fired, sent, file_transfers, temp_files, xfer, ack_log>>

\* ---------------------------------------------------- websocket_handler.py

\* The message types that have a handle_<type> method.
HandlerTypes ==
    {"device", "status", "notification", "notificationActionResponse",
     "notificationUpdate", "dismissalResponse", "mediaControlResponse",
     "macMediaControl", "appIcons", "clipboardUpdate", "fileTransferInit",
     "fileChunk", "fileChunkAck", "fileTransferComplete", "transferVerified",
     "unknown"}

\* getattr(self, f"handle_{msg_type}", self.handle_unknown), by its type.
handler_method(msg_type) ==
    IF msg_type \in HandlerTypes THEN msg_type ELSE "unknown"

\* A listen without the gate: every message is dispatched.
protocol_violation_never(authenticated, msg_type) == FALSE

\* listen's gate: a message other than 'device' before the handshake.
protocol_violation(authenticated, msg_type) ==
    ~authenticated /\ msg_type # "device"

\* A handle_device that runs the handshake for every 'device' message.
duplicate_device_never(authenticated) == FALSE

\* handle_device's gate: the connection has processed a 'device' message.
duplicate_device(authenticated) == authenticated

\* A handle_device that tests "mac_info_data is None": an empty record passes.
handshake_failed_on_none(returned) == returned = "None"

\* handle_device's "if not mac_info_data: raise".
handshake_failed(returned) == returned \in {"None", "empty"}

\* WebSocketHandler.close: websocket.close(code) unless the socket is closed.
closed_after_close(c) == [ws_closed EXCEPT ![c] = TRUE]

code_after_close(c, code) ==
    IF ws_closed[c] THEN close_code ELSE [close_code EXCEPT ![c] = code]

\* The text WebSocketHandler.send writes for a message.
encode(no_encrypt, out) == IF no_encrypt THEN out ELSE encrypt_message(out)

\* WebSocketHandler.send: nothing on a closed socket.
send(c, out) ==
    IF ws_closed[c] THEN sent
    ELSE [sent EXCEPT ![c] = Append(@, encode(h_no_encrypt[c], out))]

\* handle_device up to the return of the mac_info_request callback.
handle_device(c, data) ==
    IF duplicate_device(is_authenticated[c])
    THEN UNCHANGED hVars
    ELSE /\ state' = set_device_info(state, data)
         /\ is_authenticated' = [is_authenticated EXCEPT ![c] = TRUE]
         /\ fired' = fire_event(c, "mac_info_request")
         /\ \E o \in CallbackOutcomes :
                /\ mac_info_data' =
                    [mac_info_data EXCEPT
                        ![c] = fire_result("mac_info_request" \in event_handlers, o)]
                /\ mac_info_call' = IF "mac_info_request" \in event_handlers
                                    THEN o ELSE "absent"
         /\ pc' = [pc EXCEPT ![c] = "device_reply"]
         /\ UNCHANGED <<ws_closed, close_code, sent, file_transfers, temp_files, xfer, ack_log>>

\* A handle_device that reports no saved package.
savedAppPackages_none(st) == {}

\* mac_info_data["savedAppPackages"]: the keys of get_state("app_icons").
savedAppPackages(st) ==
    {p \in Packages : get_state(st, "app_icons")[p] # Nothing}

\* handle_device after the callback: the macInfo reply, or the 1011 close.
handle_device_reply(c) ==
    /\ pc[c] = "device_reply"
    /\ IF handshake_failed(mac_info_data[c])
       THEN /\ ws_closed' = closed_after_close(c)
            /\ close_code' = code_after_close(c, 1011)
            /\ pc' = [pc EXCEPT ![c] = "listen"]
            /\ UNCHANGED sent
       ELSE /\ sent' = send(c, MkOut("macInfo", "none", 0, savedAppPackages(state)))
            /\ pc' = [pc EXCEPT ![c] = "device_connected"]
            /\ UNCHANGED <<ws_closed, close_code>>
    /\ UNCHANGED <<event_handlers, raising, snapshot, api, srv_no_encrypt, ws_no_encrypt, ws_server,
                   handlers, stop_pc, recvd, is_authenticated, h_no_encrypt, cleanup_iter,
                   mac_info_data, mac_info_call, last_dispatch, state, fired, file_transfers, temp_files,
                   xfer, ack_log>>

\* handle_device after the macInfo send: the device_connected event.
handle_device_connected(c) ==
    /\ pc[c] = "device_connected"
    /\ fired' = fire_event(c, "device_connected")
    /\ pc' = [pc EXCEPT ![c] = "listen"]
    /\ UNCHANGED <<event_handlers, raising, snapshot, api, srv_no_encrypt, ws_no_encrypt, ws_server,
                   handlers, stop_pc, recvd, ws_closed, close_code,
                   is_authenticated, h_no_encrypt, cleanup_iter, mac_info_data, mac_info_call, last_dispatch,
                   state, sent, file_transfers, temp_files, xfer, ack_log>>

\* handle_status, handle_notification, handle_notificationUpdate and
\* handle_clipboardUpdate: update_state(type, data), then the event.
handle_update(c, msg_type, data) ==
    /\ state' = update_state(state, msg_type, data)
    /\ fired' = fire_event(c, msg_type)
    /\ UNCHANGED <<pc, ws_closed, close_code, is_authenticated, mac_info_data, mac_info_call,
                   sent, file_transfers, temp_files, xfer, ack_log>>

\* handle_appIcons' app_icons_metadata: name, systemApp and listening of
\* every package of the message.
app_icons_metadata(data) ==
    [p \in Packages |->
        IF p \in data.pkgs THEN MkData(data.src, p, data.index, FALSE, {})
        ELSE Nothing]

\* handle_appIcons: update_state("app_icons", metadata), then the event.
handle_appIcons(c, data) ==
    /\ state' = update_state(state, "app_icons", app_icons_metadata(data))
    /\ fired' = fire_event(c, "app_icons")
    /\ UNCHANGED <<pc, ws_closed, close_code, is_authenticated, mac_info_data, mac_info_call,
                   sent, file_transfers, temp_files, xfer, ack_log>>

\* handle_macMediaControl up to the return of the event callback.
handle_macMediaControl(c, data) ==
    /\ fired' = fire_event(c, "macMediaControl")
    /\ pc' = [pc EXCEPT ![c] = "media_reply"]
    /\ UNCHANGED <<ws_closed, close_code, is_authenticated, mac_info_data, mac_info_call, state,
                   sent, file_transfers, temp_files, xfer, ack_log>>

\* handle_macMediaControl after the callback: the response.
handle_macMediaControl_reply(c) ==
    /\ pc[c] = "media_reply"
    /\ sent' = IF fire_propagates(callback_raised("macMediaControl")) THEN sent
               ELSE send(c, MkOut("macMediaControlResponse", "none", 0, {}))
    /\ pc' = [pc EXCEPT ![c] = "listen"]
    /\ UNCHANGED <<event_handlers, raising, snapshot, api, srv_no_encrypt, ws_no_encrypt, ws_server,
                   handlers, stop_pc, recvd, ws_closed, close_code,
                   is_authenticated, h_no_encrypt, cleanup_iter, mac_info_data, mac_info_call, last_dispatch,
                   state, fired, file_transfers, temp_files, xfer, ack_log>>

\* ------------------------------------------------ outgoing file transfer

\* chunk_size of start_outgoing_file_transfer.
chunk_size == 64 * 1024

\* total_chunks of start_outgoing_file_transfer.
total_chunks(file_size) == (file_size + chunk_size - 1) \div chunk_size

\* A reader that returns the rest of the file at once.
read_chunk_whole(left) == left

\* The length of what f.read(chunk_size) returns with `left` bytes to read.
read_chunk(left) == IF left < chunk_size THEN left ELSE chunk_size

\* An entry of file_transfers: none, or the TransferState of an outgoing
\* transfer (the ack_events and verified_event of call `task`).
\* An incoming entry has the number of its temp file (path and handle), the
\* checksum of its "meta" and the bytes its running SHA-256 was fed.
NoEntry ==
    [kind |-> "none", task |-> "none", file |-> 0, meta |-> NoSum, hash |-> <<>>]

OutEntry(t) == [NoEntry EXCEPT !.kind = "out", !.task = t]

InEntry(f, sum) == [NoEntry EXCEPT !.kind = "in", !.file = f, !.meta = sum]

xfer0 ==
    [pc |-> "idle", conn |-> "none", file_size |-> 0, left |-> 0, index |-> 0,
     acked |-> {}, verified |-> FALSE, result |-> "none"]

\* "ack_events" in self.file_transfers[transfer_id], with the id present.
has_ack_events(c, id) ==
    id \in TransferIds /\ file_transfers[c][id].kind = "out"

\* The indices that have an Event in ack_events.
ack_indices(t) == 0 .. (total_chunks(xfer[t].file_size) - 1)

\* A handle_fileChunkAck that does not match the id: the ack goes to any
\* outgoing transfer of the handler that has the index.
ack_target_any_id(c, id, index) ==
    LET live == {i \in TransferIds :
                    /\ has_ack_events(c, i)
                    /\ index \in ack_indices(file_transfers[c][i].task)}
    IN IF live = {} THEN "none"
       ELSE file_transfers[c][CHOOSE i \in live : TRUE].task

\* The call whose Event handle_fileChunkAck sets for (id, index) on handler
\* c; "none" when it sets none.
ack_target(c, id, index) ==
    IF has_ack_events(c, id) /\ index \in ack_indices(file_transfers[c][id].task)
    THEN file_transfers[c][id].task
    ELSE "none"

\* handle_fileChunkAck.
handle_fileChunkAck(c, data) ==
    /\ xfer' = LET t == ack_target(c, data.id, data.index)
               IN IF t = "none" THEN xfer
                  ELSE [xfer EXCEPT ![t].acked = @ \cup {data.index}]
    /\ ack_log' = IF data.id \in Tasks
                  THEN ack_log \cup {<<c, data.id, data.index>>}
                  ELSE ack_log
    /\ UNCHANGED <<pc, ws_closed, close_code, is_authenticated, mac_info_data, mac_info_call,
                   state, fired, sent, file_transfers, temp_files>>

\* handle_transferVerified.
handle_transferVerified(c, data) ==
    /\ xfer' = IF has_ack_events(c, data.id)
               THEN [xfer EXCEPT ![file_transfers[c][data.id].task].verified = TRUE]
               ELSE xfer
    /\ UNCHANGED <<pc, ws_closed, close_code, is_authenticated, mac_info_data, mac_info_call,
                   state, fired, sent, file_transfers, temp_files, ack_log>>

\* ------------------------------------------------ incoming file transfer

\* An open temp file on disk, created for handler c.
TempFile(c) == [conn |-> c, open |-> TRUE, on_disk |-> TRUE, handed |-> "no"]

\* transfer["handle"].close, and os.remove(transfer["path"]) if it exists.
close_and_remove(files, f) ==
    [files EXCEPT ![f].open = FALSE, ![f].on_disk = FALSE]

\* handle_fileTransferInit: a new NamedTemporaryFile(delete=False) and a new
\* entry under the id of the message, whatever was under it; then the event.
\* The temp file is taken to be created without error.
handle_fileTransferInit(c, data) ==
    /\ temp_files' = Append(temp_files, TempFile(c))
    /\ file_transfers' =
           [file_transfers EXCEPT
               ![c][data.id] = InEntry(Len(temp_files) + 1, data.checksum)]
    /\ fired' = fire_event(c, "fileTransferInit")
    /\ UNCHANGED <<pc, ws_closed, close_code, is_authenticated, mac_info_data,
                   mac_info_call, state, sent, xfer, ack_log>>

\* handle_fileChunk: the decoded chunk is written to the handle and fed to
\* the hash; an exception (bad base64, an entry with no "handle") is logged.
handle_fileChunk(c, data) ==
    /\ file_transfers' =
           IF file_transfers[c][data.id].kind = "in" /\ data.chunk # "bad"
           THEN [file_transfers EXCEPT ![c][data.id].hash = Append(@, data.chunk)]
           ELSE file_transfers
    /\ UNCHANGED <<pc, ws_closed, close_code, is_authenticated, mac_info_data,
                   mac_info_call, state, fired, sent, temp_files, xfer, ack_log>>

\* doc_hash of handle_fileTransferComplete: data.get("checksum").
doc_hash(entry, data) == data.checksum

\* A check that trusts every transfer.
verified_always(final_hash, declared) == TRUE

\* bool(doc_hash): a non-empty string.
truthy(sum) == sum.kind \in {"hex", "null"}

\* verified of handle_fileTransferComplete.
verified(final_hash, declared) ==
    IF truthy(declared) /\ declared # MkSum("null", <<>>)
    THEN final_hash = declared
    ELSE TRUE

\* handle_fileTransferComplete.  An entry with no "handle" raises KeyError
\* into listen before anything is done.
handle_fileTransferComplete(c, data) ==
    LET transfer == file_transfers[c][data.id]
        result == verified(sha256_hexdigest(transfer.hash), doc_hash(transfer, data))
    IN IF transfer.kind # "in"
       THEN UNCHANGED hVars
       ELSE /\ temp_files' =
                   [temp_files EXCEPT
                       ![transfer.file].open = FALSE,
                       ![transfer.file].handed =
                           IF result THEN "verified" ELSE "unverified"]
            /\ fired' = fire_event(c, "fileTransferComplete")
            /\ IF fire_propagates(callback_raised("fileTransferComplete"))
               THEN UNCHANGED <<sent, file_transfers>>
               ELSE /\ sent' = send(c, MkVerified(data.id, result))
                    /\ file_transfers' =
                           [file_transfers EXCEPT ![c][data.id] = NoEntry]
            /\ UNCHANGED <<pc, ws_closed, close_code, is_authenticated,
                           mac_info_data, mac_info_call, state, xfer, ack_log>>

\* The finally of start_outgoing_file_transfer: del file_transfers[id] when
\* the id is a key.
transfers_after_exit(t) ==
    [file_transfers EXCEPT ![xfer[t].conn][t] = NoEntry]

\* start_outgoing_file_transfer returns: with `result`, through its finally.
xfer_exit(t, result) ==
    /\ xfer' = [xfer EXCEPT ![t].pc = "done", ![t].result = result]
    /\ file_transfers' = transfers_after_exit(t)

\* Server.send_file from get_handler on, and start_outgoing_file_transfer up
\* to its first send: the TransferState of the new id is stored.
send_file(t, c, file_size) ==
    /\ xfer[t].pc = "idle"
    /\ c \in handlers
    /\ xfer' = [xfer EXCEPT ![t] = [xfer0 EXCEPT !.pc = "send_init",
                                       !.conn = c, !.file_size = file_size,
                                       !.left = file_size]]
    /\ file_transfers' = [file_transfers EXCEPT ![c][t] = OutEntry(t)]
    /\ UNCHANGED <<event_handlers, raising, snapshot, api, srv_no_encrypt, ws_no_encrypt, ws_server,
                   handlers, stop_pc, pc, recvd, ws_closed, close_code,
                   is_authenticated, h_no_encrypt, cleanup_iter, mac_info_data, mac_info_call, last_dispatch,
                   state, fired, sent, ack_log, temp_files>>

\* The variables no step of start_outgoing_file_transfer changes.
xferFrame ==
    <<event_handlers, raising, snapshot, api, srv_no_encrypt, ws_no_encrypt, ws_server, handlers,
      stop_pc, pc, recvd, ws_closed, close_code, is_authenticated,
      h_no_encrypt, cleanup_iter, mac_info_data, mac_info_call, last_dispatch, state, fired, ack_log,
      temp_files>>

\* await self.send(fileTransferInit).
xfer_send_init(t) ==
    /\ xfer[t].pc = "send_init"
    /\ sent' = send(xfer[t].conn, MkOut("fileTransferInit", t, 0, {}))
    /\ xfer' = [xfer EXCEPT ![t].pc = "read"]
    /\ UNCHANGED file_transfers
    /\ UNCHANGED xferFrame

\* The next chunk of chunk_reader: a chunk to encode and send, or the end of
\* the file and with it the fileTransferComplete send.
xfer_read(t) ==
    /\ xfer[t].pc = "read"
    /\ IF read_chunk(xfer[t].left) = 0
       THEN /\ sent' = send(xfer[t].conn, MkOut("fileTransferComplete", t, 0, {}))
            /\ xfer' = [xfer EXCEPT ![t].pc = "await_verified"]
       ELSE /\ xfer' = [xfer EXCEPT ![t].pc = "send_chunk",
                                    ![t].left = @ - read_chunk(@)]
            /\ UNCHANGED sent
    /\ UNCHANGED file_transfers
    /\ UNCHANGED xferFrame

\* await self.send(fileChunk).
xfer_send_chunk(t) ==
    /\ xfer[t].pc = "send_chunk"
    /\ sent' = send(xfer[t].conn, MkOut("fileChunk", t, xfer[t].index, {}))
    /\ xfer' = [xfer EXCEPT ![t].pc = "await_ack"]
    /\ UNCHANGED file_transfers
    /\ UNCHANGED xferFrame

\* self.file_transfers[transfer_id]["ack_events"][index]: a KeyError ends the
\* transfer, else the wait for that Event begins.
xfer_await_ack(t) ==
    /\ xfer[t].pc = "await_ack"
    /\ IF has_ack_events(xfer[t].conn, t) /\ xfer[t].index \in ack_indices(t)
       THEN /\ xfer' = [xfer EXCEPT ![t].pc = "wait_ack"]
            /\ UNCHANGED file_transfers
       ELSE xfer_exit(t, "failed")
    /\ UNCHANGED sent
    /\ UNCHANGED xferFrame

\* The Event of the chunk is set: the loop goes on to the next chunk.
xfer_acked(t) ==
    /\ xfer[t].pc = "wait_ack"
    /\ xfer[t].index \in xfer[t].acked
    /\ xfer' = [xfer EXCEPT ![t].pc = "read", ![t].index = @ + 1]
    /\ UNCHANGED <<sent, file_transfers, temp_files>>
    /\ UNCHANGED xferFrame

\* A transfer that logs the missing ack and goes on with the next chunk.
xfer_ack_timeout_goes_on(t) ==
    /\ xfer[t].pc = "wait_ack"
    /\ xfer[t].index \notin xfer[t].acked
    /\ xfer' = [xfer EXCEPT ![t].pc = "read", ![t].index = @ + 1]
    /\ UNCHANGED <<sent, file_transfers>>
    /\ UNCHANGED xferFrame

\* asyncio.TimeoutError after 10 s without the ack: the transfer fails.
xfer_ack_timeout(t) ==
    /\ xfer[t].pc = "wait_ack"
    /\ xfer[t].index \notin xfer[t].acked
    /\ xfer_exit(t, "failed")
    /\ UNCHANGED sent
    /\ UNCHANGED xferFrame

\* self.file_transfers[transfer_id]["verified_event"]: a KeyError ends the
\* transfer, else the wait for that Event begins.
xfer_await_verified(t) ==
    /\ xfer[t].pc = "await_verified"
    /\ IF has_ack_events(xfer[t].conn, t)
       THEN /\ xfer' = [xfer EXCEPT ![t].pc = "wait_verified"]
            /\ UNCHANGED file_transfers
       ELSE xfer_exit(t, "failed")
    /\ UNCHANGED sent
    /\ UNCHANGED xferFrame

\* The verified_event is set.
xfer_verified(t) ==
    /\ xfer[t].pc = "wait_verified"
    /\ xfer[t].verified
    /\ xfer_exit(t, "verified")
    /\ UNCHANGED sent
    /\ UNCHANGED xferFrame

\* A wait for the verified_event that has no timeout.
xfer_verify_timeout_never(t) ==
    /\ xfer[t].pc = "wait_verified"
    /\ ~xfer[t].verified
    /\ UNCHANGED <<sent, file_transfers, xfer>>
    /\ UNCHANGED xferFrame

\* asyncio.TimeoutError after 30 s without transferVerified: logged only.
xfer_verify_timeout(t) ==
    /\ xfer[t].pc = "wait_verified"
    /\ ~xfer[t].verified
    /\ xfer_exit(t, "unverified")
    /\ UNCHANGED sent
    /\ UNCHANGED xferFrame

\* ------------------------------------------------------ the listen loop

\* The handler methods that only log.
LogOnly ==
    {"notificationActionResponse", "dismissalResponse", "mediaControlResponse",
     "unknown"}

\* await handler_method(data), up to the handler's first suspension.
dispatch(c, method, data) ==
    CASE method = "device" -> handle_device(c, data)
      [] method \in {"status", "notification", "notificationUpdate",
                     "clipboardUpdate"} -> handle_update(c, method, data)
      [] method = "appIcons" -> handle_appIcons(c, data)
      [] method = "macMediaControl" -> handle_macMediaControl(c, data)
      [] method = "fileChunkAck" -> handle_fileChunkAck(c, data)
      [] method = "transferVerified" -> handle_transferVerified(c, data)
      [] method = "fileTransferInit" -> handle_fileTransferInit(c, data)
      [] method = "fileChunk" -> handle_fileChunk(c, data)
      [] method = "fileTransferComplete" -> handle_fileTransferComplete(c, data)
      [] method \in LogOnly -> UNCHANGED hVars

\* A listen that goes on with the next frame after the 1002 close.
after_violation_continue == "listen"

\* Where listen goes after the 1002 close: its return, through the finally.
after_violation == "cleanup"

\* One round of listen's "async for": a frame is read, decoded and, unless it
\* is dropped or is a protocol violation, dispatched.  Frames the peer sent
\* before the socket closed are still read after it.
listen(c, frame) ==
    /\ pc[c] = "listen"
    /\ recvd' = [recvd EXCEPT ![c] = @ + 1]
    /\ LET message_str == IF ~h_no_encrypt[c] THEN decrypt_message(frame)
                          ELSE raw_text(frame)
           msg == json_loads(message_str)
       IN IF (~message_str.b64 /\ message_str.kind = "empty")
             \/ msg.result # "msg"
          THEN UNCHANGED hVars /\ UNCHANGED last_dispatch
          ELSE IF protocol_violation(is_authenticated[c], msg.type)
          THEN /\ ws_closed' = closed_after_close(c)
               /\ close_code' = code_after_close(c, 1002)
               /\ pc' = [pc EXCEPT ![c] = after_violation]
               /\ UNCHANGED <<is_authenticated, mac_info_data, mac_info_call, state, fired, sent,
                              file_transfers, temp_files, xfer, ack_log, last_dispatch>>
          ELSE /\ last_dispatch' =
                      [conn |-> c, method |-> handler_method(msg.type),
                       authenticated |-> is_authenticated[c],
                       wire |-> frame.wire]
               /\ dispatch(c, handler_method(msg.type), msg.data)
    /\ UNCHANGED <<event_handlers, raising, snapshot, api, srv_no_encrypt, ws_no_encrypt, ws_server,
                   handlers, stop_pc, h_no_encrypt, cleanup_iter>>

\* The "async for" ends or raises ConnectionClosed: the socket is closed and
\* the loop is left for the finally.
listen_closed(c) ==
    /\ pc[c] = "listen"
    /\ ws_closed[c]
    /\ pc' = [pc EXCEPT ![c] = "cleanup"]
    /\ UNCHANGED <<event_handlers, raising, snapshot, api, srv_no_encrypt, ws_no_encrypt, ws_server,
                   handlers, stop_pc, recvd, ws_closed, close_code,
                   is_authenticated, h_no_encrypt, cleanup_iter, mac_info_data, mac_info_call, last_dispatch,
                   state, fired, sent, file_transfers, temp_files, xfer, ack_log>>

\* The temp files after the loop of listen's finally: those of the entries
\* of handler c that have a "handle" are closed and removed.
files_after_cleanup(c) ==
    [f \in DOMAIN temp_files |->
        IF \E i \in TransferIds :
               file_transfers[c][i].kind = "in" /\ file_transfers[c][i].file = f
        THEN close_and_remove(temp_files, f)[f]
        ELSE temp_files[f]]

\* A listen whose finally fires device_disconnected too, as the wrapper does.
listen_cleanup_fires(c) ==
    /\ pc[c] = "cleanup"
    /\ temp_files' = files_after_cleanup(c)
    /\ file_transfers' = [file_transfers EXCEPT ![c] = [i \in TransferIds |-> NoEntry]]
    /\ fired' = fire_event(c, "device_disconnected")
    /\ pc' = [pc EXCEPT ![c] = "finally"]
    /\ UNCHANGED <<event_handlers, raising, snapshot, api, srv_no_encrypt, ws_no_encrypt, ws_server,
                   handlers, stop_pc, recvd, ws_closed, close_code,
                   is_authenticated, h_no_encrypt, cleanup_iter, mac_info_data,
                   mac_info_call, last_dispatch, state, sent, xfer, ack_log>>

\* No iteration of file_transfers is under way.
iter0 == [used |-> 0, file |-> 0]

\* len(self.file_transfers).
dict_size(c) ==
    Cardinality({i \in TransferIds : file_transfers[c][i].kind # "none"})

\* The entries of handler c with a "handle" that is still open, but for the
\* one of temp file `file`: those the loop of the finally has yet to come to.
open_entries(c, file) ==
    {i \in TransferIds :
        /\ file_transfers[c][i].kind = "in"
        /\ file_transfers[c][i].file # file
        /\ temp_files[file_transfers[c][i].file].open}

\* The loop of the finally raises "dictionary changed size during
\* iteration" when it asks for the next entry of a dict that has not the
\* size it had when the loop began.
changed_size(c, used) == dict_size(c) # used

\* listen's finally up to its first suspension.  With no entry that has a
\* "handle" the loop awaits nothing and self.file_transfers.clear() follows
\* at once; else the loop is suspended in the close of an entry's temp file.
listen_cleanup(c) ==
    /\ pc[c] = "cleanup"
    /\ IF open_entries(c, 0) = {}
       THEN /\ temp_files' = files_after_cleanup(c)
            /\ file_transfers' =
                   [file_transfers EXCEPT ![c] = [i \in TransferIds |-> NoEntry]]
            /\ pc' = [pc EXCEPT ![c] = "finally"]
            /\ UNCHANGED cleanup_iter
       ELSE /\ \E i \in open_entries(c, 0) :
                   cleanup_iter' =
                       [cleanup_iter EXCEPT
                           ![c] = [used |-> dict_size(c),
                                   file |-> file_transfers[c][i].file]]
            /\ pc' = [pc EXCEPT ![c] = "cleanup_file"]
            /\ UNCHANGED <<temp_files, file_transfers>>
    /\ UNCHANGED <<event_handlers, raising, snapshot, api, srv_no_encrypt, ws_no_encrypt, ws_server,
                   handlers, stop_pc, recvd, ws_closed, close_code,
                   is_authenticated, h_no_encrypt, mac_info_data, mac_info_call, last_dispatch,
                   state, fired, sent, xfer, ack_log>>

\* The loop of the finally resumes: the temp file it was suspended on is
\* closed and removed, and the next entry is asked for.  A dict that changed
\* size raises RuntimeError out of listen, before the clear(); else the loop
\* is suspended on the next entry with a "handle", or ends and the dict is
\* cleared.
listen_cleanup_file(c) ==
    /\ pc[c] = "cleanup_file"
    /\ temp_files' = close_and_remove(temp_files, cleanup_iter[c].file)
    /\ IF changed_size(c, cleanup_iter[c].used)
       THEN /\ pc' = [pc EXCEPT ![c] = "finally"]
            /\ cleanup_iter' = [cleanup_iter EXCEPT ![c] = iter0]
            /\ UNCHANGED file_transfers
       ELSE IF open_entries(c, cleanup_iter[c].file) = {}
       THEN /\ pc' = [pc EXCEPT ![c] = "finally"]
            /\ cleanup_iter' = [cleanup_iter EXCEPT ![c] = iter0]
            /\ file_transfers' =
                   [file_transfers EXCEPT ![c] = [i \in TransferIds |-> NoEntry]]
       ELSE /\ \E i \in open_entries(c, cleanup_iter[c].file) :
                   cleanup_iter' =
                       [cleanup_iter EXCEPT
                           ![c].file = file_transfers[c][i].file]
            /\ UNCHANGED <<pc, file_transfers>>
    /\ UNCHANGED <<event_handlers, raising, snapshot, api, srv_no_encrypt, ws_no_encrypt, ws_server,
                   handlers, stop_pc, recvd, ws_closed, close_code,
                   is_authenticated, h_no_encrypt, mac_info_data, mac_info_call, last_dispatch,
                   state, fired, sent, xfer, ack_log>>

\* The peer or the network closes the socket.
peer_close(c) ==
    /\ pc[c] \notin {"idle", "done"}
    /\ ~ws_closed[c]
    /\ ws_closed' = [ws_closed EXCEPT ![c] = TRUE]
    /\ close_code' = [close_code EXCEPT ![c] = 1006]
    /\ UNCHANGED <<event_handlers, raising, snapshot, api, srv_no_encrypt, ws_no_encrypt, ws_server,
                   handlers, stop_pc, pc, recvd, is_authenticated,
                   h_no_encrypt, cleanup_iter, mac_info_data, mac_info_call, last_dispatch, state, fired, sent,
                   file_transfers, temp_files, xfer, ack_log>>

\* ---------------------------------------------------- websocket_server.py

\* WebSocketServer._handler_wrapper up to "await handler.listen()": a new
\* connection gets its handler, which takes the server's no_encrypt.
handler_wrapper(c) ==
    /\ pc[c] = "idle"
    /\ ws_server = "serving"
    /\ h_no_encrypt' = [h_no_encrypt EXCEPT ![c] = ws_no_encrypt]
    /\ handlers' = handlers \cup {c}
    /\ pc' = [pc EXCEPT ![c] = "listen"]
    /\ UNCHANGED <<event_handlers, raising, snapshot, api, srv_no_encrypt, ws_no_encrypt, ws_server,
                   stop_pc, recvd, ws_closed, close_code, is_authenticated,
                   mac_info_data, mac_info_call, last_dispatch, state, fired, sent,
                   file_transfers, temp_files, xfer, ack_log, cleanup_iter>>

\* A _handler_wrapper that leaves its handler in the set.
handlers_after_remove_kept(c) == handlers

\* The handler set after _handler_wrapper's "if handler in self.handlers:
\* self.handlers.remove(handler)".
handlers_after_remove(c) == handlers \ {c}

\* _handler_wrapper's finally: the handler leaves the set, then the
\* device_disconnected event.
handler_wrapper_finally(c) ==
    /\ pc[c] = "finally"
    /\ handlers' = handlers_after_remove(c)
    /\ fired' = fire_event(c, "device_disconnected")
    /\ pc' = [pc EXCEPT ![c] = "done"]
    /\ UNCHANGED <<event_handlers, raising, snapshot, api, srv_no_encrypt, ws_no_encrypt, ws_server,
                   stop_pc, recvd, ws_closed, close_code, is_authenticated,
                   h_no_encrypt, cleanup_iter, mac_info_data, mac_info_call, last_dispatch, state, sent,
                   file_transfers, temp_files, xfer, ack_log>>

\* WebSocketServer.stop up to "await self.server.wait_closed()":
\* server.close() stops the listener and closes every open connection with
\* code 1001.
stop_close ==
    /\ stop_pc = "idle"
    /\ IF ws_server # "none"
       THEN /\ ws_server' = "closing"
            /\ stop_pc' = "wait_closed"
            /\ ws_closed' = [c \in Conns |-> ws_closed[c] \/ pc[c] \notin {"idle", "done"}]
            /\ close_code' =
                   [c \in Conns |->
                       IF ~ws_closed[c] /\ pc[c] \notin {"idle", "done"}
                       THEN 1001 ELSE close_code[c]]
       ELSE /\ stop_pc' = "close_handlers"
            /\ UNCHANGED <<ws_server, ws_closed, close_code>>
    /\ UNCHANGED <<event_handlers, raising, snapshot, api, srv_no_encrypt, ws_no_encrypt, handlers, pc,
                   recvd, is_authenticated, h_no_encrypt, cleanup_iter, mac_info_data, mac_info_call,
                   last_dispatch, state, fired, sent, file_transfers, temp_files, xfer,
                   ack_log>>

\* wait_closed() returns: every connection handler has returned.
stop_wait_closed ==
    /\ stop_pc = "wait_closed"
    /\ \A c \in Conns : pc[c] \in {"idle", "done"}
    /\ ws_server' = "none"
    /\ stop_pc' = "close_handlers"
    /\ UNCHANGED <<event_handlers, raising, snapshot, api, srv_no_encrypt, ws_no_encrypt, handlers, pc,
                   recvd, ws_closed, close_code, is_authenticated,
                   h_no_encrypt, cleanup_iter, mac_info_data, mac_info_call, last_dispatch, state, fired, sent,
                   file_transfers, temp_files, xfer, ack_log>>

\* The rest of stop: handler.close() for every handler left, then
\* self.handlers.clear().
stop_close_handlers ==
    /\ stop_pc = "close_handlers"
    /\ ws_closed' = [c \in Conns |-> ws_closed[c] \/ c \in handlers]
    /\ close_code' =
           [c \in Conns |->
               IF ~ws_closed[c] /\ c \in handlers THEN 1000 ELSE close_code[c]]
    /\ handlers' = {}
    /\ stop_pc' = "done"
    /\ UNCHANGED <<event_handlers, raising, snapshot, api, srv_no_encrypt, ws_no_encrypt, ws_server, pc,
                   recvd, is_authenticated, h_no_encrypt, cleanup_iter, mac_info_data, mac_info_call,
                   last_dispatch, state, fired, sent, file_transfers, temp_files, xfer,
                   ack_log>>

\* Nothing was got from get_state yet.
snapshot0 == [key |-> "none", copy |-> "none", val |-> Nothing]

\* A get_state that returns copy.copy of the cache: the dicts inside the
\* returned one are those of the cache.
copy_of_get_state_shallow == "shallow"

\* What get_state returns of the cache: deepcopy, no object is shared.
copy_of_get_state == "deep"

\* What the user writes into an object it got.
UserData == MkData("user", "n1", 1, FALSE, {})

\* The keys the user asks get_state for; "None" is the call without a key.
UserKeys == {"None", "notifications"}

\* Server.get_state(key): DeviceState.get_state.
user_get_state(key) ==
    /\ snapshot' = [key |-> key, copy |-> copy_of_get_state,
                    val |-> IF key = "None" THEN state ELSE get_state(state, key)]
    /\ UNCHANGED <<event_handlers, raising, api, srv_no_encrypt, ws_no_encrypt,
                   ws_server, handlers, stop_pc, pc, recvd, ws_closed,
                   close_code, is_authenticated, h_no_encrypt, cleanup_iter, mac_info_data,
                   mac_info_call, last_dispatch, state, fired, sent,
                   file_transfers, temp_files, xfer, ack_log>>

\* The object after the user's write: at the top, an entry of the returned
\* dict is assigned; nested, a dict inside the returned one is written to.
mutated(val, key, depth) ==
    IF key = "None"
    THEN IF depth = "top" THEN [val EXCEPT !.status = UserData]
         ELSE [val EXCEPT !.notifications["n1"] = UserData]
    ELSE [val EXCEPT !["n1"] = UserData]

\* The cache after the user's write to an object that shares `copy` with it.
cache_after_write(st, key, depth, copy) ==
    IF copy = "deep" \/ (copy = "shallow" /\ depth = "top") THEN st
    ELSE IF key = "None" THEN mutated(st, key, depth)
    ELSE [st EXCEPT !.notifications = mutated(@, key, depth)]

\* The user mutates the object it got from get_state.
user_mutate(depth) ==
    /\ snapshot.copy # "none"
    /\ snapshot' = [snapshot EXCEPT !.val = mutated(@, snapshot.key, depth)]
    /\ state' = cache_after_write(state, snapshot.key, depth, snapshot.copy)
    /\ UNCHANGED <<event_handlers, raising, api, srv_no_encrypt, ws_no_encrypt,
                   ws_server, handlers, stop_pc, pc, recvd, ws_closed,
                   close_code, is_authenticated, h_no_encrypt, cleanup_iter, mac_info_data,
                   mac_info_call, last_dispatch, fired, sent, file_transfers,
                   temp_files, xfer, ack_log>>

\* No send_message or broadcast_message call was made yet.
api0 == [calls |-> 0, pending |-> {}]

\* The message of the n-th call: message_dict as given by the user.
ApiMessage(kind, n) == MkOut(kind, "none", n, {})

\* A send_to_handler that looks the handler up and does not ask whether it
\* is authenticated.
api_target_registered(c) == c \in handlers

\* send_to_handler's "found_handler and found_handler.is_authenticated", and
\* broadcast's "for h in self.handlers if h.is_authenticated".
api_target(c) == c \in handlers /\ is_authenticated[c]

\* The variables no send_message or broadcast_message step changes.
apiFrame ==
    <<event_handlers, raising, snapshot, srv_no_encrypt, ws_no_encrypt,
      ws_server, handlers, stop_pc, pc, recvd, ws_closed, close_code,
      is_authenticated, h_no_encrypt, cleanup_iter, mac_info_data, mac_info_call,
      last_dispatch, state, fired, file_transfers, temp_files, xfer, ack_log>>

\* Server.send_message(handler_id of c, message): send_to_handler.
send_message(c) ==
    /\ api.calls < MaxApiCalls
    /\ api' = [api EXCEPT !.calls = @ + 1]
    /\ sent' = IF api_target(c) THEN send(c, ApiMessage("message", api.calls + 1))
               ELSE sent
    /\ UNCHANGED apiFrame

\* Server.broadcast_message(message) up to asyncio.wait: a task with
\* h.send(message) is created for every handler that passes the filter.
broadcast_message ==
    /\ api.calls < MaxApiCalls
    /\ api' = [calls |-> api.calls + 1,
               pending |-> api.pending
                   \cup {<<c, api.calls + 1>> : c \in {h \in Conns : api_target(h)}}]
    /\ UNCHANGED sent
    /\ UNCHANGED apiFrame

\* A task of broadcast runs: h.send(message).
broadcast_send(c, n) ==
    /\ <<c, n>> \in api.pending
    /\ api' = [api EXCEPT !.pending = @ \ {<<c, n>>}]
    /\ sent' = send(c, ApiMessage("broadcast", n))
    /\ UNCHANGED apiFrame

\* ------------------------------------- send_file awaited in a callback

\* A round of listen with a 'status' message whose registered callback
\* awaits Server.send_file(path, handler_id) for its own connection:
\* handle_status updates DeviceState and awaits _fire_event, which awaits
\* the callback, which awaits send_file and with it
\* start_outgoing_file_transfer.  listen is suspended in "await
\* handler_method(data)" until call t returns: pc[c] = t.
callback_send_file(c, frame, t, file_size) ==
    /\ pc[c] = "listen"
    /\ is_authenticated[c]
    /\ json_loads(IF ~h_no_encrypt[c] THEN decrypt_message(frame)
                  ELSE raw_text(frame)).result = "msg"
    /\ frame.type = "status"
    /\ "status" \in event_handlers /\ "status" \notin raising
    /\ xfer[t].pc = "idle"
    /\ c \in handlers
    /\ recvd' = [recvd EXCEPT ![c] = @ + 1]
    /\ last_dispatch' =
           [conn |-> c, method |-> handler_method(frame.type),
            authenticated |-> is_authenticated[c], wire |-> frame.wire]
    /\ state' = update_state(state, "status", frame.data)
    /\ fired' = fire_event(c, "status")
    /\ xfer' = [xfer EXCEPT ![t] = [xfer0 EXCEPT !.pc = "send_init",
                                       !.conn = c, !.file_size = file_size,
                                       !.left = file_size]]
    /\ file_transfers' = [file_transfers EXCEPT ![c][t] = OutEntry(t)]
    /\ pc' = [pc EXCEPT ![c] = t]
    /\ UNCHANGED <<event_handlers, raising, snapshot, api, srv_no_encrypt,
                   ws_no_encrypt, ws_server, handlers, stop_pc, ws_closed,
                   close_code, is_authenticated, h_no_encrypt, cleanup_iter,
                   mac_info_data, mac_info_call, sent, ack_log, temp_files>>

\* send_file has returned to the callback, the callback to _fire_event and
\* handle_status to listen, which reads on.
callback_returns(c) ==
    /\ pc[c] \in Tasks
    /\ xfer[pc[c]].pc = "done"
    /\ pc' = [pc EXCEPT ![c] = "listen"]
    /\ UNCHANGED <<event_handlers, raising, snapshot, api, srv_no_encrypt,
                   ws_no_encrypt, ws_server, handlers, stop_pc, recvd,
                   ws_closed, close_code, is_authenticated, h_no_encrypt,
                   cleanup_iter, mac_info_data, mac_info_call, last_dispatch,
                   state, fired, sent, file_transfers, temp_files, xfer,
                   ack_log>>

\* ----------------------------------------------------- the specifications

\* The state after Server.__init__.
Init ==
    /\ event_handlers = {}
    /\ srv_no_encrypt = FALSE
    /\ ws_no_encrypt = FALSE
    /\ ws_server = "none"
    /\ handlers = {}
    /\ stop_pc = "idle"
    /\ pc = [c \in Conns |-> "idle"]
    /\ recvd = [c \in Conns |-> 0]
    /\ ws_closed = [c \in Conns |-> FALSE]
    /\ close_code = [c \in Conns |-> 0]
    /\ is_authenticated = [c \in Conns |-> FALSE]
    /\ h_no_encrypt = [c \in Conns |-> FALSE]
    /\ mac_info_data = [c \in Conns |-> "unset"]
    /\ mac_info_call = "none"
    /\ last_dispatch =
           [conn |-> "none", method |-> "none", authenticated |-> FALSE,
            wire |-> "none"]
    /\ state = state0
    /\ fired = [c \in Conns |-> [e \in Events |-> 0]]
    /\ sent = [c \in Conns |-> <<>>]
    /\ file_transfers = [c \in Conns |-> [i \in TransferIds |-> NoEntry]]
    /\ xfer = [t \in Tasks |-> xfer0]
    /\ ack_log = {}
    /\ temp_files = <<>>
    /\ raising = {}
    /\ snapshot = snapshot0
    /\ api = api0
    /\ cleanup_iter = [c \in Conns |-> iter0]

Wires == {"enc", "plain", "tampered"}

DeviceNames == {"Pixel", "Nexus"}

\* Each text of a set sent encrypted, plain, or encrypted and then altered.
OnEveryWire(texts) == {[f EXCEPT !.wire = w] : f \in texts, w \in Wires}

\* The texts a peer sends in the connection-lifecycle runs.
LifecycleFrames(c) ==
    {MkFrame(w, "msg", "device", MkData(c, "Pixel", 0, FALSE, {})) :
        w \in {"enc", "plain"}}
    \cup {MkFrame(w, "msg", "status", Payload(c)) : w \in {"enc", "plain"}}

\* The connection lifecycle: accept, handshake, close and shutdown, with two
\* connections.
Next ==
    \/ on_event("mac_info_request")
    \/ \E no_encrypt \in BOOLEAN : start(no_encrypt)
    \/ \E c \in Conns : handler_wrapper(c)
    \/ \E c \in Conns : \E frame \in LifecycleFrames(c) :
            recvd[c] < MaxFrames /\ listen(c, frame)
    \/ \E c \in Conns : handle_device_reply(c)
    \/ \E c \in Conns : handle_device_connected(c)
    \/ \E c \in Conns : listen_closed(c)
    \/ \E c \in Conns : listen_cleanup(c)
    \/ \E c \in Conns : handler_wrapper_finally(c)
    \/ \E c \in Conns : peer_close(c)
    \/ stop_close
    \/ stop_wait_closed
    \/ stop_close_handlers

Spec == Init /\ [][Next]_vars

\* The connections of the message-protocol runs.
ProtoConns == {"c1"}

\* The texts a peer sends in the message-protocol runs.
ProtoTexts(c) ==
    {MkFrame("plain", k, "none", Nothing) : k \in {"empty", "notjson", "nonobject"}}
    \cup {MkFrame("plain", "msg", "device", MkData(c, n, 0, FALSE, {})) :
            n \in DeviceNames}
    \cup {MkFrame("plain", "msg", t, Payload(c)) :
            t \in {"status", "clipboardUpdate", "macMediaControl", "bogus"}}
    \cup {MkFrame("plain", "msg", "notification", MkData(c, n, 0, FALSE, {})) :
            n \in {"n1"}}
    \cup {MkFrame("plain", "msg", "appIcons", MkData(c, "none", 0, FALSE, {p})) :
            p \in {"pkg1"}}

\* The message protocol of one connection, with every kind of message.
NextProto ==
    \/ on_event("mac_info_request")
    \/ \E no_encrypt \in BOOLEAN : start(no_encrypt)
    \/ \E c \in ProtoConns : handler_wrapper(c)
    \/ \E c \in ProtoConns : \E frame \in OnEveryWire(ProtoTexts(c)) :
            recvd[c] < MaxProtoFrames /\ listen(c, frame)
    \/ \E c \in ProtoConns : handle_device_reply(c)
    \/ \E c \in ProtoConns : handle_device_connected(c)
    \/ \E c \in ProtoConns : handle_macMediaControl_reply(c)
    \/ \E c \in ProtoConns : listen_closed(c)
    \/ \E c \in ProtoConns : listen_cleanup(c)
    \/ \E c \in ProtoConns : handler_wrapper_finally(c)
    \/ \E c \in ProtoConns : peer_close(c)
    \/ stop_close
    \/ stop_wait_closed
    \/ stop_close_handlers

SpecProto == Init /\ [][NextProto]_vars

\* The sizes of the files sent.
FileSizes == {0, 1, chunk_size, chunk_size + 1}

\* The chunk indices a peer acknowledges: those of a file of FileSizes, and
\* one past them.
AckIndices == 0 .. 2

\* The calls of start_outgoing_file_transfer in the file-transfer runs.
XferTasks == {"x1"}

\* The transfer ids a peer names there: that of the call, and one of its own.
XferIds == {"x1", "p1"}

\* The frames a peer sends in the file-transfer runs.
XferFrames(c) ==
    {MkFrame("enc", "msg", "device", MkData(c, "Pixel", 0, FALSE, {}))}
    \cup {MkFrame("enc", "msg", "fileChunkAck", MkData(c, i, x, FALSE, {})) :
            i \in XferIds, x \in AckIndices}
    \cup {MkFrame("enc", "msg", "transferVerified", MkData(c, i, 0, FALSE, {})) :
            i \in XferIds}

\* Outgoing file transfers on one connection of an encrypting server.
NextXfer ==
    \/ on_event("mac_info_request")
    \/ start(FALSE)
    \/ \E c \in ProtoConns : handler_wrapper(c)
    \/ \E c \in ProtoConns : \E frame \in XferFrames(c) :
            recvd[c] < MaxXferFrames /\ listen(c, frame)
    \/ \E c \in ProtoConns : handle_device_reply(c)
    \/ \E c \in ProtoConns : handle_device_connected(c)
    \/ \E c \in ProtoConns : listen_closed(c)
    \/ \E c \in ProtoConns : listen_cleanup(c)
    \/ \E c \in ProtoConns : handler_wrapper_finally(c)
    \/ \E c \in ProtoConns : peer_close(c)
    \/ \E t \in XferTasks : \E c \in ProtoConns : \E file_size \in FileSizes :
            send_file(t, c, file_size)
    \/ \E t \in XferTasks : xfer_send_init(t)
    \/ \E t \in XferTasks : xfer_read(t)
    \/ \E t \in XferTasks : xfer_send_chunk(t)
    \/ \E t \in XferTasks : xfer_await_ack(t)
    \/ \E t \in XferTasks : xfer_acked(t)
    \/ \E t \in XferTasks : xfer_ack_timeout(t)
    \/ \E t \in XferTasks : xfer_await_verified(t)
    \/ \E t \in XferTasks : xfer_verified(t)
    \/ \E t \in XferTasks : xfer_verify_timeout(t)

SpecXfer == Init /\ [][NextXfer]_vars

\* The checksums a peer declares in the incoming-transfer runs.
InSums ==
    {NoSum, MkSum("None", <<>>), MkSum("empty", <<>>), MkSum("null", <<>>),
     sha256_hexdigest(<<>>), sha256_hexdigest(<<"a">>)}

\* The ids a peer names there: one it has announced, one it has not.
InIds == {"p1", "x2"}

\* The frames a peer sends in the incoming-transfer runs.
InFrames(c) ==
    {MkFrame("enc", "msg", "device", MkData(c, "Pixel", 0, FALSE, {})),
     MkFrame("enc", "msg", "macMediaControl", Payload(c)),
     MkFrame("enc", "msg", "status", Payload(c))}
    \cup {MkFrame("enc", "msg", "fileTransferInit", MkFile(c, "p1", sum, "none")) :
            sum \in {NoSum, sha256_hexdigest(<<>>), sha256_hexdigest(<<"a">>)}}
    \cup {MkFrame("enc", "msg", "fileChunk", MkFile(c, i, NoSum, ch)) :
            i \in InIds, ch \in {"a", "bad"}}
    \cup {MkFrame("enc", "msg", "fileTransferComplete", MkFile(c, i, sum, "none")) :
            i \in InIds, sum \in InSums}

\* The events that get a raising callback there.
RaisingEvents == {"status", "macMediaControl", "fileTransferComplete"}

\* Incoming file transfers on one connection of an encrypting server, with
\* callbacks that raise.
NextIn ==
    \/ on_event("mac_info_request")
    \/ \E e \in RaisingEvents : on_event_raising(e)
    \/ start(FALSE)
    \/ \E c \in ProtoConns : handler_wrapper(c)
    \/ \E c \in ProtoConns : \E frame \in InFrames(c) :
            recvd[c] < MaxInFrames /\ listen(c, frame)
    \/ \E c \in ProtoConns : handle_device_reply(c)
    \/ \E c \in ProtoConns : handle_device_connected(c)
    \/ \E c \in ProtoConns : handle_macMediaControl_reply(c)
    \/ \E c \in ProtoConns : listen_closed(c)
    \/ \E c \in ProtoConns : listen_cleanup(c)
    \/ \E c \in ProtoConns : listen_cleanup_file(c)
    \/ \E c \in ProtoConns : handler_wrapper_finally(c)
    \/ \E c \in ProtoConns : peer_close(c)

SpecIn == Init /\ [][NextIn]_vars

\* The ids a peer gives its own transfers in the two-way runs: one of its
\* own, and the one it was sent in the fileTransferInit of the server.
DuplexIds == {"p1", "x1"}

\* The frames a peer sends in the two-way transfer runs.
DuplexFrames(c) ==
    {MkFrame("enc", "msg", "device", MkData(c, "Pixel", 0, FALSE, {})),
     MkFrame("enc", "msg", "fileChunkAck", MkData(c, "x1", 0, FALSE, {})),
     MkFrame("enc", "msg", "transferVerified", MkData(c, "x1", 0, FALSE, {})),
     MkFrame("enc", "msg", "fileChunk", MkFile(c, "x1", NoSum, "a")),
     MkFrame("enc", "msg", "fileTransferComplete", MkFile(c, "x1", NoSum, "none"))}
    \cup {MkFrame("enc", "msg", "fileTransferInit", MkFile(c, i, NoSum, "none")) :
            i \in DuplexIds}

\* The peer of c has read the fileTransferInit of outgoing transfer `id`,
\* which is how it comes to know that id.
disclosed(c, id) ==
    \E i \in DOMAIN sent[c] :
        sent[c][i].type = "fileTransferInit" /\ sent[c][i].id = id

\* An outgoing transfer of one chunk and incoming transfers on the same
\* connection of an encrypting server; the peer names the id of the outgoing
\* transfer only once it was sent it.
NextDuplex ==
    \/ on_event("mac_info_request")
    \/ start(FALSE)
    \/ \E c \in ProtoConns : handler_wrapper(c)
    \/ \E c \in ProtoConns : \E frame \in DuplexFrames(c) :
            /\ recvd[c] < MaxDuplexFrames
            /\ frame.data.id \in Tasks => disclosed(c, frame.data.id)
            /\ listen(c, frame)
    \/ \E c \in ProtoConns : handle_device_reply(c)
    \/ \E c \in ProtoConns : handle_device_connected(c)
    \/ \E c \in ProtoConns : listen_closed(c)
    \/ \E c \in ProtoConns : listen_cleanup(c)
    \/ \E c \in ProtoConns : listen_cleanup_file(c)
    \/ \E c \in ProtoConns : handler_wrapper_finally(c)
    \/ \E c \in ProtoConns : peer_close(c)
    \/ \E t \in XferTasks : \E c \in ProtoConns : send_file(t, c, 1)
    \/ \E t \in XferTasks : xfer_send_init(t)
    \/ \E t \in XferTasks : xfer_read(t)
    \/ \E t \in XferTasks : xfer_send_chunk(t)
    \/ \E t \in XferTasks : xfer_await_ack(t)
    \/ \E t \in XferTasks : xfer_acked(t)
    \/ \E t \in XferTasks : xfer_ack_timeout(t)
    \/ \E t \in XferTasks : xfer_await_verified(t)
    \/ \E t \in XferTasks : xfer_verified(t)
    \/ \E t \in XferTasks : xfer_verify_timeout(t)

SpecDuplex == Init /\ [][NextDuplex]_vars

\* The frames a peer sends in the runs with send_file in a callback, but
\* for the 'status' message that starts it.
CallbackFrames(c) ==
    {MkFrame("enc", "msg", "device", MkData(c, "Pixel", 0, FALSE, {})),
     MkFrame("enc", "msg", "clipboardUpdate", Payload(c)),
     MkFrame("enc", "msg", "fileChunkAck", MkData(c, "x1", 0, FALSE, {})),
     MkFrame("enc", "msg", "transferVerified", MkData(c, "x1", 0, FALSE, {}))}

\* An outgoing transfer that is started and awaited by a task of its own,
\* or by a 'status' callback of the target connection; the peer names the id
\* of the transfer once it was sent it.
NextCallback ==
    \/ \E e \in {"mac_info_request", "status"} : on_event(e)
    \/ start(FALSE)
    \/ \E c \in ProtoConns : handler_wrapper(c)
    \/ \E c \in ProtoConns : \E frame \in CallbackFrames(c) :
            /\ recvd[c] < MaxCallbackFrames
            /\ frame.data.id \in Tasks => disclosed(c, frame.data.id)
            /\ listen(c, frame)
    \/ \E c \in ProtoConns : \E t \in XferTasks : \E file_size \in {0, 1} :
            /\ recvd[c] < MaxCallbackFrames
            /\ callback_send_file(c, MkFrame("enc", "msg", "status", Payload(c)),
                                  t, file_size)
    \/ \E c \in ProtoConns : callback_returns(c)
    \/ \E t \in XferTasks : \E c \in ProtoConns : \E file_size \in {0, 1} :
            send_file(t, c, file_size)
    \/ \E c \in ProtoConns : handle_device_reply(c)
    \/ \E c \in ProtoConns : handle_device_connected(c)
    \/ \E c \in ProtoConns : listen_closed(c)
    \/ \E c \in ProtoConns : listen_cleanup(c)
    \/ \E c \in ProtoConns : handler_wrapper_finally(c)
    \/ \E c \in ProtoConns : peer_close(c)
    \/ \E t \in XferTasks : xfer_send_init(t)
    \/ \E t \in XferTasks : xfer_read(t)
    \/ \E t \in XferTasks : xfer_send_chunk(t)
    \/ \E t \in XferTasks : xfer_await_ack(t)
    \/ \E t \in XferTasks : xfer_acked(t)
    \/ \E t \in XferTasks : xfer_ack_timeout(t)
    \/ \E t \in XferTasks : xfer_await_verified(t)
    \/ \E t \in XferTasks : xfer_verified(t)
    \/ \E t \in XferTasks : xfer_verify_timeout(t)

SpecCallback == Init /\ [][NextCallback]_vars

\* The frames a peer sends in the runs that are checked for termination.
LiveFrames(c) ==
    {MkFrame("enc", "msg", "device", MkData(c, "Pixel", 0, FALSE, {})),
     MkFrame("enc", "msg", "transferVerified", MkData(c, "x1", 0, FALSE, {}))}
    \cup {MkFrame("enc", "msg", "fileChunkAck", MkData(c, "x1", x, FALSE, {})) :
            x \in {0, 1}}

\* An outgoing transfer with a peer that acknowledges, or does not, and a
\* connection that stays, or closes.
NextLive ==
    \/ on_event("mac_info_request")
    \/ start(FALSE)
    \/ \E c \in ProtoConns : handler_wrapper(c)
    \/ \E c \in ProtoConns : \E frame \in LiveFrames(c) :
            recvd[c] < MaxLiveFrames /\ listen(c, frame)
    \/ \E c \in ProtoConns : handle_device_reply(c)
    \/ \E c \in ProtoConns : handle_device_connected(c)
    \/ \E c \in ProtoConns : listen_closed(c)
    \/ \E c \in ProtoConns : listen_cleanup(c)
    \/ \E c \in ProtoConns : handler_wrapper_finally(c)
    \/ \E c \in ProtoConns : peer_close(c)
    \/ \E t \in XferTasks : \E c \in ProtoConns :
            \E file_size \in {0, 1, chunk_size + 1} : send_file(t, c, file_size)
    \/ \E t \in XferTasks : xfer_send_init(t)
    \/ \E t \in XferTasks : xfer_read(t)
    \/ \E t \in XferTasks : xfer_send_chunk(t)
    \/ \E t \in XferTasks : xfer_await_ack(t)
    \/ \E t \in XferTasks : xfer_acked(t)
    \/ \E t \in XferTasks : xfer_ack_timeout(t)
    \/ \E t \in XferTasks : xfer_await_verified(t)
    \/ \E t \in XferTasks : xfer_verified(t)
    \/ \E t \in XferTasks : xfer_verify_timeout(t)

\* A step of call t of start_outgoing_file_transfer.  Each of its awaits
\* ends: a send, a worker-thread call, or a wait_for with a timeout.
xfer_step(t) ==
    \/ xfer_send_init(t)
    \/ xfer_read(t)
    \/ xfer_send_chunk(t)
    \/ xfer_await_ack(t)
    \/ xfer_acked(t)
    \/ xfer_ack_timeout(t)
    \/ xfer_await_verified(t)
    \/ xfer_verified(t)
    \/ xfer_verify_timeout(t)

\* The event loop runs a task that can go on.
SpecLive ==
    Init /\ [][NextLive]_vars /\ \A t \in XferTasks : WF_vars(xfer_step(t))

\* The frames a peer sends in the send_message and broadcast_message runs.
ApiFrames(c) ==
    {MkFrame("enc", "msg", "device", MkData(c, "Pixel", 0, FALSE, {}))}

\* send_message and broadcast_message on a server with two connections,
\* which the server closes on a failed handshake; a peer sends its 'device'
\* message once.
NextApi ==
    \/ on_event("mac_info_request")
    \/ start(FALSE)
    \/ \E c \in Conns : handler_wrapper(c)
    \/ \E c \in Conns : \E frame \in ApiFrames(c) :
            recvd[c] < MaxFrames /\ ~is_authenticated[c]
                /\ listen(c, frame)
    \/ \E c \in Conns : handle_device_reply(c)
    \/ \E c \in Conns : handle_device_connected(c)
    \/ \E c \in Conns : listen_closed(c)
    \/ \E c \in Conns : listen_cleanup(c)
    \/ \E c \in Conns : handler_wrapper_finally(c)
    \/ \E c \in Conns : send_message(c)
    \/ broadcast_message
    \/ \E c \in Conns : \E n \in 1 .. MaxApiCalls : broadcast_send(c, n)

SpecApi == Init /\ [][NextApi]_vars

\* The frames a peer sends in the app-icon runs.
IconFrames(c) ==
    {MkFrame("enc", "msg", "device", MkData(c, "Pixel", 0, FALSE, {}))}
    \cup {MkFrame("enc", "msg", "appIcons", MkData(c, "none", 0, FALSE, {p})) :
            p \in Packages}

\* Handshakes and appIcons messages of two connections.
NextIcons ==
    \/ on_event("mac_info_request")
    \/ start(FALSE)
    \/ \E c \in Conns : handler_wrapper(c)
    \/ \E c \in Conns : \E frame \in IconFrames(c) :
            recvd[c] < MaxIconFrames /\ listen(c, frame)
    \/ \E c \in Conns : handle_device_reply(c)
    \/ \E c \in Conns : handle_device_connected(c)
    \/ \E c \in Conns : listen_closed(c)
    \/ \E c \in Conns : listen_cleanup(c)
    \/ \E c \in Conns : handler_wrapper_finally(c)
    \/ \E c \in Conns : peer_close(c)

SpecIcons == Init /\ [][NextIcons]_vars

\* The frames a peer sends in the cache runs: notifications with and
\* without an id, in two versions, and their updates.
CacheFrames(c) ==
    {MkFrame("enc", "msg", "device", MkData(c, "Pixel", 0, FALSE, {}))}
    \cup {MkFrame("enc", "msg", "notification", MkData(c, n, v, FALSE, {})) :
            n \in NotifIds \cup {"none"}, v \in {0, 1}}
    \cup {MkFrame("enc", "msg", "notificationUpdate", MkData(c, n, 0, d, {})) :
            n \in NotifIds \cup {"none"}, d \in BOOLEAN}

\* The notification cache of one connection, read and written to by the user.
NextCache ==
    \/ on_event("mac_info_request")
    \/ start(FALSE)
    \/ \E c \in ProtoConns : handler_wrapper(c)
    \/ \E c \in ProtoConns : \E frame \in CacheFrames(c) :
            recvd[c] < MaxCacheFrames /\ listen(c, frame)
    \/ \E c \in ProtoConns : handle_device_reply(c)
    \/ \E c \in ProtoConns : handle_device_connected(c)
    \/ \E c \in ProtoConns : listen_closed(c)
    \/ \E c \in ProtoConns : listen_cleanup(c)
    \/ \E c \in ProtoConns : handler_wrapper_finally(c)
    \/ \E c \in ProtoConns : peer_close(c)
    \/ \E key \in UserKeys : user_get_state(key)
    \/ \E depth \in {"top", "nested"} : user_mutate(depth)

SpecCache == Init /\ [][NextCache]_vars

\* ------------------------------------------------------------ the properties

\* The frames of a type that sends no reply of its own.
Count(frames, type) ==
    Cardinality({i \in DOMAIN frames : frames[i].type = type})

\* The messages of the protocol runs that handler c decodes as sent: on the
\* wire of the handler's mode, a JSON object.
DecodedBy(c) ==
    {f \in OnEveryWire(ProtoTexts(c)) :
        /\ f.kind = "msg"
        /\ f.wire = IF h_no_encrypt[c] THEN "plain" ELSE "enc"}

\* The events a message handler other than handle_device fires.
MessageEvents ==
    Events \ {"mac_info_request", "device_connected", "device_disconnected"}

\* C1: while is_authenticated is false, listen invokes no handler method
\* other than handle_device; a connection that has not processed a 'device'
\* message has written nothing to the status, notifications, app_icons and
\* clipboard of DeviceState and has fired no message event.
C1_OnlyDeviceBeforeHandshake ==
    /\ (last_dispatch.method # "none" /\ ~last_dispatch.authenticated)
           => last_dispatch.method = "device"
    /\ \A c \in Conns :
           ~is_authenticated[c] =>
               /\ state.status.src # c
               /\ state.clipboard.src # c
               /\ \A n \in NotifIds : state.notifications[n].src # c
               /\ \A p \in Packages : state.app_icons[p].src # c
               /\ \A e \in MessageEvents : fired[c][e] = 0

\* An unauthenticated connection has been closed by the gate of listen.
C1_Witness ==
    \E c \in Conns :
        ~is_authenticated[c] /\ close_code[c] = 1002 /\ recvd[c] > 0

\* C2: a message other than 'device' read before the handshake closes the
\* socket with code 1002 and ends the reading, with DeviceState, the events
\* and the frames sent unchanged; once out of the loop a connection reads no
\* more; a connection that ends unauthenticated has fired device_disconnected
\* once and nothing else.
C2_ViolationCloses ==
    /\ [][\A c \in Conns : \A frame \in DecodedBy(c) :
            (~is_authenticated[c] /\ frame.type # "device" /\ listen(c, frame))
                => /\ ws_closed'[c]
                   /\ ~ws_closed[c] => close_code'[c] = 1002
                   /\ pc'[c] = "cleanup"
                   /\ state' = state /\ fired' = fired /\ sent' = sent]_vars
    /\ [][\A c \in Conns :
            pc[c] \in {"cleanup", "finally", "done"}
                => /\ recvd'[c] = recvd[c]
                   /\ pc'[c] \in {"cleanup", "finally", "done"}]_vars
    /\ [](\A c \in Conns :
            (pc[c] = "done" /\ ~is_authenticated[c])
                => fired[c] = [e \in Events |->
                                  IF e = "device_disconnected" THEN 1 ELSE 0])

\* A connection closed with 1002 has ended, device_disconnected fired.
C2_Witness ==
    \E c \in Conns :
        /\ pc[c] = "done" /\ ~is_authenticated[c] /\ close_code[c] = 1002
        /\ fired[c]["device_disconnected"] = 1

\* C3: a connection runs the handshake at most once (one mac_info_request
\* call, one macInfo, one device_connected), and a 'device' message read by
\* an authenticated connection changes neither DeviceState nor the events
\* nor the frames sent.
C3_DeviceOnce ==
    /\ [](\A c \in Conns :
            /\ fired[c]["mac_info_request"] <= 1
            /\ fired[c]["device_connected"] <= 1
            /\ Count(sent[c], "macInfo") <= 1)
    /\ [][\A c \in Conns : \A frame \in DecodedBy(c) :
            (is_authenticated[c] /\ frame.type = "device" /\ listen(c, frame))
                => /\ state' = state /\ fired' = fired /\ sent' = sent
                   /\ pc' = pc /\ mac_info_data' = mac_info_data]_vars

\* handle_device was invoked on an authenticated connection.
C3_Witness ==
    /\ last_dispatch.method = "device"
    /\ last_dispatch.authenticated
    /\ state.device_info.src = last_dispatch.conn

\* What a failing mac_info_request call does.
FailedCalls == {"absent", "raises", "None", "empty"}

\* C4: a mac_info_request that is not registered, raises, or returns None or
\* an empty record leaves handle_device with no record; the connection is
\* then closed, with code 1011 when it was open, no macInfo is sent and
\* device_connected is not fired.
C4_HandshakeFailure ==
    /\ [][\A c \in Conns :
            (~is_authenticated[c] /\ is_authenticated'[c])
                => /\ ("mac_info_request" \notin event_handlers)
                          <=> (mac_info_call' = "absent")
                   /\ mac_info_call' \in FailedCalls
                          => mac_info_data'[c] \in {"None", "empty"}]_vars
    /\ [][\A c \in Conns :
            (/\ pc[c] = "device_reply" /\ pc'[c] # "device_reply"
             /\ mac_info_data[c] \in {"None", "empty"})
                => /\ ws_closed'[c]
                   /\ ~ws_closed[c] => close_code'[c] = 1011
                   /\ sent' = sent /\ fired' = fired]_vars
    /\ [](\A c \in Conns :
            mac_info_data[c] \in {"None", "empty"}
                => /\ Count(sent[c], "macInfo") = 0
                   /\ fired[c]["device_connected"] = 0
                   /\ pc[c] # "device_reply" => ws_closed[c])

\* A callback that raised has closed its connection with 1011.
C4_Witness ==
    \E c \in Conns :
        /\ mac_info_call = "raises" /\ mac_info_data[c] = "None"
        /\ close_code[c] = 1011 /\ pc[c] = "listen"

\* C5 as claimed: once a connection has ended, it has fired as many
\* device_connected as device_disconnected events, each at most once.
C5_ConnectedEqualsDisconnected ==
    \A c \in Conns :
        /\ fired[c]["device_connected"] <= 1
        /\ fired[c]["device_disconnected"] <= 1
        /\ pc[c] = "done"
              => fired[c]["device_connected"] = fired[c]["device_disconnected"]

\* C5 amended: device_connected is fired at most once, device_disconnected
\* exactly once, when the connection ends; the counts are equal after the end
\* exactly when mac_info_request returned a record to the handshake.
C5_DisconnectedOnceConnectedIfHandshake ==
    \A c \in Conns :
        /\ fired[c]["device_connected"] <= 1
        /\ fired[c]["device_disconnected"] = IF pc[c] = "done" THEN 1 ELSE 0
        /\ pc[c] = "done"
              => fired[c]["device_connected"] =
                     IF mac_info_data[c] = "record" THEN 1 ELSE 0

\* A connection has ended after a failed handshake, and one after a 1002.
C5_Witness ==
    \E c \in Conns :
        /\ pc[c] = "done" /\ close_code[c] = 1011
        /\ fired[c]["device_connected"] = 0
        /\ fired[c]["device_disconnected"] = 1

\* C6: a connection that has ended is out of the handler set and has fired
\* device_disconnected once, one that has not ended has not fired it; after
\* stop() the handler set is empty.
C6_RemovedAndDisconnectedOnce ==
    /\ \A c \in Conns :
           /\ pc[c] = "done" => c \notin handlers
           /\ fired[c]["device_disconnected"] = IF pc[c] = "done" THEN 1 ELSE 0
    /\ stop_pc = "done" => handlers = {}

\* stop() has returned after closing a connection that was being served.
C6_Witness ==
    /\ stop_pc = "done"
    /\ \E c \in Conns :
           /\ pc[c] = "done" /\ close_code[c] = 1001
           /\ fired[c]["device_disconnected"] = 1

\* C7 as claimed: a handler of an encrypting server dispatches only frames
\* that AES-GCM authenticated.
C7_FailedDecryptionDropped ==
    (last_dispatch.method # "none" /\ ~h_no_encrypt[last_dispatch.conn])
        => last_dispatch.wire = "enc"

\* C8 as claimed: all handlers of the server have the same no_encrypt, and
\* all frames written are encrypted or none is.
C8_OneModePerServer ==
    \A c, d \in Conns :
        /\ (pc[c] # "idle" /\ pc[d] # "idle") => h_no_encrypt[c] = h_no_encrypt[d]
        /\ \A i \in DOMAIN sent[c] : \A j \in DOMAIN sent[d] :
               sent[c][i].wire = sent[d][j].wire

\* The frames of outgoing transfer `id` written to the socket of c, in order.
TransferFrames(c, id) ==
    LET OfTransfer(f) ==
            /\ f.id = id
            /\ f.type \in {"fileTransferInit", "fileChunk", "fileTransferComplete"}
    IN SelectSeq(sent[c], OfTransfer)

\* The fileChunk frames among them.
ChunkFrames(c, id) ==
    LET IsChunk(f) == f.type = "fileChunk"
    IN SelectSeq(TransferFrames(c, id), IsChunk)

\* The number of chunks of a file of `size` bytes: size / 65536, rounded up.
CeilChunks(size) ==
    IF size % 65536 = 0 THEN size \div 65536 ELSE (size \div 65536) + 1

\* C9: the fileChunk frames of a transfer go out in strictly ascending index
\* order, and the one of index N+1 only after handle_fileChunkAck was given
\* an ack for (the transfer's id, N); an ack for an id that is not a
\* transfer of the handler, or for an index beyond the file's chunks, changes
\* no transfer and writes no frame.
C9_ChunkAfterAck ==
    /\ [](\A c \in Conns : \A id \in Tasks :
            LET chunks == ChunkFrames(c, id)
            IN /\ \A i, j \in DOMAIN chunks :
                      i < j => chunks[i].index < chunks[j].index
               /\ \A i \in DOMAIN chunks :
                      chunks[i].index > 0
                          => <<c, id, chunks[i].index - 1>> \in ack_log)
    /\ [][\A c \in Conns : \A frame \in XferFrames(c) :
            (/\ frame.type = "fileChunkAck"
             /\ \/ frame.data.id \notin Tasks
                \/ xfer[frame.data.id].conn # c
                \/ frame.data.index >= CeilChunks(xfer[frame.data.id].file_size)
             /\ listen(c, frame))
                => xfer' = xfer /\ sent' = sent]_vars

\* The second chunk of a transfer went out after the ack of the first, an ack
\* beyond the last chunk having been received too.
C9_Witness ==
    \E c \in Conns : \E id \in Tasks :
        /\ \E i \in DOMAIN ChunkFrames(c, id) : ChunkFrames(c, id)[i].index = 1
        /\ <<c, id, 0>> \in ack_log
        /\ <<c, id, 2>> \in ack_log

\* What the peer is to observe of a transfer of `size` bytes.
ExpectedFrames(size) ==
    [i \in 1 .. (CeilChunks(size) + 2) |->
        IF i = 1 THEN <<"fileTransferInit", 0>>
        ELSE IF i = CeilChunks(size) + 2 THEN <<"fileTransferComplete", 0>>
        ELSE <<"fileChunk", i - 2>>]

\* What the peer has observed of transfer `id` on the socket of c.
ObservedFrames(c, id) ==
    [i \in DOMAIN TransferFrames(c, id) |->
        <<TransferFrames(c, id)[i].type, TransferFrames(c, id)[i].index>>]

\* C10: what the peer observes of a transfer of S bytes is at every time the
\* beginning of: one fileTransferInit, fileChunk 0 .. ceil(S / 65536) - 1,
\* one fileTransferComplete; once it has observed the fileTransferComplete it
\* has observed all of it, and nothing else.
C10_InitChunksComplete ==
    \A t \in Tasks :
        xfer[t].conn # "none" =>
            LET observed == ObservedFrames(xfer[t].conn, t)
                expected == ExpectedFrames(xfer[t].file_size)
            IN /\ Len(observed) <= Len(expected)
               /\ \A i \in DOMAIN observed : observed[i] = expected[i]
               /\ (\E i \in DOMAIN observed :
                       observed[i][1] = "fileTransferComplete")
                      => observed = expected

\* A transfer of two chunks was completed and verified.
C10_Witness ==
    \E t \in Tasks :
        /\ xfer[t].file_size = chunk_size + 1 /\ xfer[t].result = "verified"
        /\ Len(ObservedFrames(xfer[t].conn, t)) = 4
        /\ ObservedFrames(xfer[t].conn, t)[4][1] = "fileTransferComplete"

\* The transferVerified replies written to the socket of c for transfer id.
VerifiedReplies(c, id) ==
    LET IsReply(f) == f.type = "transferVerified" /\ f.id = id
    IN SelectSeq(sent[c], IsReply)

\* The fileTransferComplete messages of the incoming-transfer runs that
\* handler c decodes, for an id it has a temp file under.
CompleteOfKnown(c) ==
    {f \in InFrames(c) :
        /\ f.type = "fileTransferComplete"
        /\ file_transfers[c][f.data.id].kind = "in"}

\* What the checksum of a fileTransferComplete message asks for: true when
\* none is supplied (absent, null, "null"), else whether it is the SHA-256
\* of the bytes the fileChunk messages delivered.
ExpectedVerified(bytes, sum) ==
    CASE sum.kind \in {"absent", "None", "null"} -> TRUE
      [] sum.kind = "hex" -> sum.digest = bytes
      [] OTHER -> TRUE

\* C11: handle_fileTransferComplete for a known id hands the temp file to
\* the fileTransferComplete event with verified true when the checksum of
\* the message is absent, null or "null" or is the SHA-256 of the bytes
\* delivered, false when it is another digest; it writes one
\* transferVerified with that id and the same value when the socket is open,
\* and forgets the transfer.
C11_VerifiedReply ==
    [][\A c \in Conns : \A frame \in CompleteOfKnown(c) :
        listen(c, frame) =>
            LET transfer == file_transfers[c][frame.data.id]
                expected == ExpectedVerified(transfer.hash, frame.data.checksum)
            IN /\ temp_files'[transfer.file].handed =
                      IF expected THEN "verified" ELSE "unverified"
               /\ fired'[c]["fileTransferComplete"] =
                      fired[c]["fileTransferComplete"] + 1
               /\ sent'[c] = IF ws_closed[c] THEN sent[c]
                             ELSE Append(sent[c],
                                     [MkVerified(frame.data.id, expected)
                                         EXCEPT !.wire = "enc"])
               /\ file_transfers'[c][frame.data.id].kind = "none"]_vars

\* A transfer that delivered a chunk under the digest of no bytes was handed
\* over and answered verified: false.
C11_Witness ==
    \E c \in Conns : \E f \in DOMAIN temp_files :
        /\ temp_files[f].handed = "unverified"
        /\ Len(VerifiedReplies(c, "p1")) = 1
        /\ ~VerifiedReplies(c, "p1")[1].verified
        /\ recvd[c] = 4

\* C12 as claimed: a transfer handed over as verified had no digest declared
\* at fileTransferInit other than that of the bytes delivered.  (An entry is
\* gone once handed over; the last fileTransferInit of a run is the one of
\* its only temp file.)
C12_InitChecksumCompared ==
    [][\A c \in Conns : \A frame \in CompleteOfKnown(c) :
        (/\ file_transfers[c][frame.data.id].meta.kind = "hex"
         /\ file_transfers[c][frame.data.id].meta.digest
                # file_transfers[c][frame.data.id].hash
         /\ listen(c, frame))
            => /\ temp_files'[file_transfers[c][frame.data.id].file].handed
                      = "unverified"
               /\ ws_closed[c] \/ ~sent'[c][Len(sent'[c])].verified]_vars

\* C13 as claimed: once the cleanup of a connection has finished, no temp
\* file created for it and not handed over is open or on disk.
C13_NoTempFileRemains ==
    \A f \in DOMAIN temp_files :
        (/\ pc[temp_files[f].conn] \in {"finally", "done"}
         /\ temp_files[f].handed = "no")
            => ~temp_files[f].open /\ ~temp_files[f].on_disk

\* The frames of send_message and broadcast_message calls on the socket of c.
ApiFramesSent(c, kind, n) ==
    {i \in DOMAIN sent[c] : sent[c][i].type = kind /\ sent[c][i].index = n}

\* The handlers a call reaches: in the registry, authenticated.
Reached == {c \in Conns : c \in handlers /\ is_authenticated[c]}

\* C14: send_message hands the message to the handler's send, which writes
\* it when the socket is open, iff the handler is in the registry and
\* authenticated, and else writes nothing; broadcast_message makes one send
\* for each handler in the registry and authenticated at the call, each of
\* which writes the message once when its socket is open; no message of
\* either call is on the socket of an unauthenticated handler, and none is
\* there twice.
C14_SendIffRegisteredAuthenticated ==
    /\ [][\A c \in Conns :
            send_message(c)
                => sent' = IF c \in Reached /\ ~ws_closed[c]
                           THEN [sent EXCEPT ![c] =
                                    Append(@, [ApiMessage("message", api'.calls)
                                                  EXCEPT !.wire = "enc"])]
                           ELSE sent]_vars
    /\ [][broadcast_message
            => /\ api'.pending \ api.pending = {<<c, api'.calls>> : c \in Reached}
               /\ sent' = sent]_vars
    /\ [][\A c \in Conns : \A n \in 1 .. MaxApiCalls :
            broadcast_send(c, n)
                => sent' = IF ~ws_closed[c]
                           THEN [sent EXCEPT ![c] =
                                    Append(@, [ApiMessage("broadcast", n)
                                                  EXCEPT !.wire = "enc"])]
                           ELSE sent]_vars
    /\ [](\A c \in Conns : \A n \in 1 .. MaxApiCalls :
            \A kind \in {"message", "broadcast"} :
                /\ Cardinality(ApiFramesSent(c, kind, n)) <= 1
                /\ ~is_authenticated[c] => ApiFramesSent(c, kind, n) = {})

\* A broadcast reached the authenticated handler of two registered ones, and
\* a send_message to the other was dropped.
C14_Witness ==
    \E c, d \in Conns :
        /\ ApiFramesSent(c, "broadcast", 1) # {}
        /\ d \in handlers /\ ~is_authenticated[d]
        /\ api.calls = 2 /\ api.pending = {}
        /\ \A n \in 1 .. MaxApiCalls : \A kind \in {"message", "broadcast"} :
               ApiFramesSent(d, kind, n) = {}

\* The callback of the event is registered and raises.
Raises(event) == event \in event_handlers /\ event \in raising

\* C15: a message whose event callback raises is handled to its end and the
\* connection reads on: a status has updated DeviceState, a macMediaControl
\* is answered with macMediaControlResponse, a fileTransferComplete with
\* transferVerified and its TransferState is deleted; the socket is not
\* closed by any of these steps.
C15_CallbackErrorContained ==
    /\ [][\A c \in Conns : \A frame \in InFrames(c) :
            (/\ is_authenticated[c]
             /\ frame.type \in RaisingEvents /\ Raises(frame.type)
             /\ frame.type = "fileTransferComplete"
                    => file_transfers[c][frame.data.id].kind = "in"
             /\ listen(c, frame))
                => /\ ws_closed' = ws_closed /\ close_code' = close_code
                   /\ fired'[c][frame.type] = fired[c][frame.type] + 1
                   /\ frame.type = "status"
                          => state'.status = frame.data /\ pc'[c] = "listen"
                   /\ frame.type = "macMediaControl" => pc'[c] = "media_reply"
                   /\ frame.type = "fileTransferComplete"
                          => /\ pc'[c] = "listen"
                             /\ file_transfers'[c][frame.data.id].kind = "none"
                             /\ ws_closed[c] \/
                                    /\ Len(sent'[c]) = Len(sent[c]) + 1
                                    /\ sent'[c][Len(sent'[c])].type
                                           = "transferVerified"]_vars
    /\ [][\A c \in Conns :
            (pc[c] = "media_reply" /\ pc'[c] # "media_reply")
                => /\ pc'[c] = "listen"
                   /\ ws_closed' = ws_closed
                   /\ ws_closed[c] \/
                          /\ Len(sent'[c]) = Len(sent[c]) + 1
                          /\ sent'[c][Len(sent'[c])].type
                                 = "macMediaControlResponse"]_vars

\* With raising callbacks for both events, a macMediaControl and a
\* fileTransferComplete were answered and the connection is still read.
C15_Witness ==
    \E c \in Conns :
        /\ Raises("macMediaControl") /\ Raises("fileTransferComplete")
        /\ fired[c]["macMediaControl"] > 0
        /\ fired[c]["fileTransferComplete"] > 0
        /\ Count(sent[c], "macMediaControlResponse") = 1
        /\ Count(sent[c], "transferVerified") = 1
        /\ pc[c] = "listen" /\ ~ws_closed[c]

\* C16 as claimed: a package that is in app_icons stays in it.
C16_AppIconsMerged ==
    [][\A p \in Packages :
        state.app_icons[p] # Nothing => state'.app_icons[p] # Nothing]_vars

\* The macInfo frames written to the socket of c.
MacInfoFrames(c) ==
    LET IsMacInfo(f) == f.type = "macInfo"
    IN SelectSeq(sent[c], IsMacInfo)

\* C20: the handshake of a 'device' message whose mac_info_request returns a
\* record goes in this order: when mac_info_request is called, device_info
\* is the payload of the message and is_authenticated is set, nothing is sent
\* yet; the one macInfo is written after that call, before device_connected,
\* with savedAppPackages the keys of app_icons at that step; device_connected
\* is fired once, after the macInfo send, which has written the frame unless
\* the socket was closed by then.
C20_HandshakeOrder ==
    /\ [][\A c \in Conns :
            fired'[c]["mac_info_request"] # fired[c]["mac_info_request"]
                => /\ ~is_authenticated[c] /\ is_authenticated'[c]
                   /\ state'.device_info.src = c
                   /\ sent' = sent
                   /\ fired'[c]["device_connected"] = 0]_vars
    /\ [][\A c \in Conns :
            Len(MacInfoFrames(c))' # Len(MacInfoFrames(c))
                => /\ MacInfoFrames(c) = <<>> /\ Len(MacInfoFrames(c)') = 1
                   /\ fired[c]["mac_info_request"] = 1
                   /\ mac_info_data[c] = "record"
                   /\ MacInfoFrames(c)'[1].pkgs =
                          {p \in Packages : state.app_icons[p] # Nothing}
                   /\ fired'[c]["device_connected"] = 0]_vars
    /\ [][\A c \in Conns :
            fired'[c]["device_connected"] # fired[c]["device_connected"]
                => /\ fired[c]["device_connected"] = 0
                   /\ mac_info_data[c] = "record"
                   /\ Len(MacInfoFrames(c)) = 1 \/ ws_closed[c]
                   /\ sent' = sent]_vars
    /\ [](\A c \in Conns :
            (mac_info_data[c] = "record"
             /\ pc[c] \notin {"device_reply", "device_connected"})
                => /\ fired[c]["device_connected"] = 1
                   /\ Len(MacInfoFrames(c)) = 1 \/ ws_closed[c])

\* A handshake reported the package another connection had sent icons of.
C20_Witness ==
    \E c \in Conns :
        /\ Len(MacInfoFrames(c)) = 1
        /\ MacInfoFrames(c)[1].pkgs = {"pkg1"}
        /\ fired[c]["device_connected"] = 1
        /\ state.device_info.src = c

\* The notifications map a message is to leave: a notification with an id
\* puts its payload under the id, a notificationUpdate that is dismissed
\* removes its id, every other message leaves the map as it is.
NotificationsAfter(map, msg_type, data) ==
    [n \in NotifIds |->
        IF msg_type = "notification" /\ data.id = n THEN data
        ELSE IF msg_type = "notificationUpdate" /\ data.id = n /\ data.dismissed
        THEN Nothing
        ELSE map[n]]

\* C17: every notification message of an authenticated connection puts its
\* payload under its id, every notificationUpdate with dismissed true removes
\* its id, and a notificationUpdate with dismissed false or with an id that
\* is not in the map leaves the map unchanged; no other step of the server
\* changes the map.
C17_NotificationsMap ==
    /\ [][\A c \in Conns : \A frame \in CacheFrames(c) :
            (is_authenticated[c] /\ listen(c, frame))
                => state'.notifications =
                       NotificationsAfter(state.notifications, frame.type,
                                          frame.data)]_vars
    /\ [][(state'.notifications # state.notifications)
            => \E c \in Conns : recvd'[c] # recvd[c]]_vars

\* The map holds the second version of one notification and not the other
\* one, after two notification messages and a notificationUpdate.
C17_Witness ==
    /\ state.notifications["n1"].index = 1
    /\ state.notifications["n1"].id = "n1"
    /\ state.notifications["n2"] = Nothing
    /\ \E c \in Conns : fired[c]["notificationUpdate"] > 0
                           /\ fired[c]["notification"] > 1

\* C18: a write of the user to an object it got from get_state changes
\* neither the cache nor what get_state returns next, and no step of the
\* server changes an object the user has got.
C18_DeepSnapshot ==
    /\ [][\A depth \in {"top", "nested"} :
            user_mutate(depth)
                => /\ state' = state
                   /\ \A key \in DOMAIN state :
                          get_state(state', key) = get_state(state, key)]_vars
    /\ [][(snapshot' # snapshot)
            => \/ \E key \in UserKeys : user_get_state(key)
               \/ \E depth \in {"top", "nested"} : user_mutate(depth)]_vars

\* The user wrote into the notifications it got while the cache held one,
\* and the cache has since changed under a later message.
C18_Witness ==
    /\ snapshot.key = "notifications"
    /\ snapshot.val["n1"] = UserData
    /\ state.notifications["n1"] # UserData
    /\ state.notifications["n2"] # Nothing
    /\ snapshot.val["n2"] = Nothing

\* C19: a frame that is not valid JSON, whatever the state of the connection,
\* and a message of an authenticated connection whose type has no handler,
\* are discarded: DeviceState, file_transfers and the temp files stay as they
\* are, no event is fired, nothing is sent, the socket is not closed and the
\* connection goes on listening.
C19_MessageErrorsDiscarded ==
    [][\A c \in Conns : \A frame \in OnEveryWire(ProtoTexts(c)) :
          (/\ \/ frame.kind = "notjson"
              \/ frame.type = "bogus" /\ is_authenticated[c]
           /\ listen(c, frame))
              => /\ UNCHANGED <<state, file_transfers, temp_files, fired, sent,
                                ws_closed, close_code, is_authenticated>>
                 /\ pc'[c] = "listen"]_vars

\* A message without a handler was the last one an authenticated connection
\* dispatched; its socket is open and it listens.
C19_Witness ==
    \E c \in Conns :
        /\ last_dispatch.conn = c
        /\ last_dispatch.method = "unknown"
        /\ last_dispatch.authenticated
        /\ pc[c] = "listen"
        /\ ~ws_closed[c]
        /\ fired[c]["device_connected"] = 1

\* C21: an ack that does not come within the timeout ends the transfer as
\* failed, inside start_outgoing_file_transfer: the step writes nothing,
\* closes nothing and leaves the listen loop where it is; the transfer has
\* then written no fileTransferComplete and no fileChunk beyond the one it
\* waited for, and a transfer that has returned writes no frame any more.
C21_AckTimeoutAborts ==
    /\ [][\A t \in Tasks :
            (xfer[t].pc = "wait_ack" /\ xfer[t].index \notin xfer[t].acked
             /\ xfer'[t].pc # "wait_ack")
                => /\ xfer'[t].pc = "done" /\ xfer'[t].result = "failed"
                   /\ UNCHANGED <<sent, pc, ws_closed, close_code, handlers>>
                   /\ LET frames == TransferFrames(xfer[t].conn, t)
                      IN \A i \in DOMAIN frames :
                             /\ frames[i].type # "fileTransferComplete"
                             /\ frames[i].type = "fileChunk"
                                    => frames[i].index <= xfer[t].index]_vars
    /\ [][\A t \in Tasks :
            xfer[t].pc = "done"
                => TransferFrames(xfer[t].conn, t)' = TransferFrames(xfer[t].conn, t)]_vars

\* The ack of the second chunk of a transfer did not come; the connection
\* is open and listens.
C21_Witness ==
    \E t \in Tasks :
        /\ xfer[t].result = "failed" /\ xfer[t].index = 1
        /\ xfer[t].acked = {0}
        /\ Len(ChunkFrames(xfer[t].conn, t)) = 2
        /\ pc[xfer[t].conn] = "listen"
        /\ ~ws_closed[xfer[t].conn]

\* C23 as claimed: a message read after handle_device closed the connection
\* with 1011 is dispatched to no handler, changes nothing in DeviceState
\* and fires no event.
C23_NotReadyAfterFailedHandshake ==
    [][\A c \in Conns : \A frame \in OnEveryWire(ProtoTexts(c)) :
          (close_code[c] = 1011 /\ listen(c, frame))
              => /\ last_dispatch' = last_dispatch
                 /\ state' = state
                 /\ fired' = fired]_vars

\* C24 as claimed: a temp file that was neither handed over nor deleted is
\* that of exactly one entry of its handler's file_transfers.
C24_TempFileOwnedByOneEntry ==
    \A f \in DOMAIN temp_files :
        (temp_files[f].handed = "no" /\ temp_files[f].on_disk)
            => Cardinality({i \in TransferIds :
                   /\ file_transfers[temp_files[f].conn][i].kind = "in"
                   /\ file_transfers[temp_files[f].conn][i].file = f}) = 1

\* C29 as claimed: the socket of a handler that is not authenticated carries
\* no fileTransferInit, fileChunk or fileTransferComplete.
C29_NoFileFramesUnauthenticated ==
    \A c \in Conns :
        ~is_authenticated[c]
            => \A i \in DOMAIN sent[c] :
                   sent[c][i].type \notin
                       {"fileTransferInit", "fileChunk", "fileTransferComplete"}

\* C22 as claimed: when start_outgoing_file_transfer returns, nothing is
\* stored under its id, no entry under another id was removed, and what it
\* removed under its id was its own TransferState.
C22_ExitRemovesOwnEntryOnly ==
    [][\A t \in Tasks :
          (xfer[t].pc # "done" /\ xfer'[t].pc = "done")
              => LET c == xfer[t].conn
                 IN /\ file_transfers'[c][t] = NoEntry
                    /\ \A i \in TransferIds \ {t} :
                           file_transfers'[c][i] = file_transfers[c][i]
                    /\ file_transfers[c][t] \in {NoEntry, OutEntry(t)}]_vars

\* C25 as claimed: a fileTransferInit, fileChunk or fileTransferComplete
\* that carries the id of an outgoing transfer in flight leaves its
\* TransferState in place, and the removal at the end of the outgoing
\* routine removes no entry of an incoming transfer.
C25_OutgoingOnlyByAckAndVerified ==
    /\ [][\A c \in Conns : \A frame \in DuplexFrames(c) :
            (/\ frame.type \in {"fileTransferInit", "fileChunk",
                                "fileTransferComplete"}
             /\ file_transfers[c][frame.data.id].kind = "out"
             /\ listen(c, frame))
                => file_transfers'[c][frame.data.id]
                       = file_transfers[c][frame.data.id]]_vars
    /\ [][\A t \in Tasks :
            (xfer[t].pc # "done" /\ xfer'[t].pc = "done")
                => file_transfers[xfer[t].conn][t].kind # "in"]_vars

\* C26 as claimed: when the finally of listen is left, file_transfers is
\* empty and the temp file of every entry it had is closed and deleted,
\* also when entries were removed from file_transfers, and none added,
\* while its loop was suspended.
C26_CleanupCompletes ==
    [][\A c \in Conns :
          (/\ pc[c] \in {"cleanup", "cleanup_file"} /\ pc'[c] = "finally"
           /\ pc[c] = "cleanup_file" => dict_size(c) <= cleanup_iter[c].used)
              => /\ \A i \in TransferIds : file_transfers'[c][i] = NoEntry
                 /\ \A i \in TransferIds :
                        file_transfers[c][i].kind = "in"
                            => LET f == file_transfers[c][i].file
                               IN ~temp_files'[f].open /\ ~temp_files'[f].on_disk]_vars

\* C27 as claimed: while an outgoing transfer waits for an ack or for the
\* transferVerified of its peer, the listen loop of its connection is not
\* suspended in a callback that awaits that transfer, so that the peer's
\* messages are dispatched.
C27_AcksDispatchedWhileWaiting ==
    \A t \in Tasks :
        xfer[t].pc \in {"wait_ack", "wait_verified"}
            => pc[xfer[t].conn] # t

\* C28: every call of start_outgoing_file_transfer returns, whatever the
\* peer sends or does not send and whether or not the connection closes;
\* a wait for transferVerified that times out ends the call as unverified,
\* not as failed.
C28_TransferReturns ==
    /\ \A t \in XferTasks : (xfer[t].pc # "idle") ~> (xfer[t].pc = "done")
    /\ [][\A t \in XferTasks :
            (xfer[t].pc = "wait_verified" /\ ~xfer[t].verified
             /\ xfer'[t].pc = "done")
                => xfer'[t].result = "unverified"]_vars

\* A transfer of two chunks, both acknowledged, returned through the
\* verification timeout on an open connection.
C28_Witness ==
    \E t \in XferTasks :
        /\ xfer[t].pc = "done" /\ xfer[t].result = "unverified"
        /\ xfer[t].acked = {0, 1}
        /\ ~xfer[t].verified
        /\ ~ws_closed[xfer[t].conn]

====
